---- MODULE Spec2Model ----
(***************************************************************************)
(* Model of the resumable download engine of chicago_crime_downloader:     *)
(* run_windowed_mode, run_offset_mode (runners.py), safe_request and       *)
(* probe_count_for_day (http_client.py), the path planner, the resume      *)
(* inspector and the chunk writer (io_utils.py), and the stop flag set by  *)
(* the SIGINT handler (cli.py).                                            *)
(***************************************************************************)
EXTENDS Integers, Sequences, FiniteSets, TLC

\* ------------------------------------------------------------------ bounds
\* largest number of rows the source holds for one window (or for the full stream)
MaxRows == 3
\* largest value of http.retries explored
MaxRetries == 2
\* number of runs (process invocations) over the same output tree
MaxRuns == 2
\* largest value of cfg.max_chunks explored (0 stands for None)
MaxCap == 1
\* value of http.retries in the calls whose backoff is followed to its cap
BackoffRetries == 6
\* length in days of the calendar stretch the window generators are applied to
MaxSpan == 75
\* rows of the first window (or of the full stream) in a run over an existing tree
ResumeRows == 4

\* rows per page (cfg.chunk_size) explored
ChunkSizes == {2}

\* ------------------------------------------------------------ state
VARIABLES
    cfg,              \* RunConfig + HttpConfig + environment, fixed over a behaviour
    src,              \* rows the source holds per window (window index -> count)
    run,              \* number of the current invocation
    pc,               \* position of the orchestrator
    wi,               \* index of the window of the for loop (runners.py:100)
    chunk_no,         \* runners.py:39, 127
    offset,           \* runners.py:38, 126
    wrote_any,        \* runners.py:117
    created_this_run, \* runners.py:118
    data,             \* rows returned by the last safe_request call
    actual_path,      \* path returned by write_frame
    req,              \* state of the safe_request call in progress
    ret,              \* outcome of the last safe_request call
    stop_requested,   \* runners.py:22
    dirs,             \* directories that exist
    data_files,       \* data files that exist: path -> content
    manifests,        \* manifest files that exist: path -> content
    h,                \* history of the current run (observation only)
    call,             \* one safe_request call followed on its own, response by response
    eval              \* one function applied on its own: its name, argument and result

cfgvars == <<cfg, src, call, eval>>
locals == <<wi, chunk_no, offset, wrote_any, created_this_run, data, actual_path>>
fs == <<dirs, data_files, manifests>>
vars == <<cfg, src, run, pc, wi, chunk_no, offset, wrote_any, created_this_run,
          data, actual_path, req, ret, stop_requested, dirs, data_files,
          manifests, h, call, eval>>

\* ------------------------------------------------------------ paths
NoPath == [dir |-> <<>>, pre |-> "", no |-> 0, suf |-> ""]

Min(a, b) == IF a < b THEN a ELSE b
Max(a, b) == IF a < b THEN b ELSE a

\* the directory p and its ancestors (Path.mkdir(parents=True))
Prefixes(p) == {SubSeq(p, 1, k) : k \in 1..Len(p)}

\* ensure_dir: mkdir(parents=True, exist_ok=True)
ensure_dir(ds, p) == ds \cup Prefixes(p)

\* window identifier text: the parts joined with "-"
WidStr(parts) ==
    IF Len(parts) = 3 THEN parts[1] \o "-" \o parts[2] \o "-" \o parts[3]
    ELSE parts[1] \o "-" \o parts[2]

\* _split_wid: the identifier split at "-": (year, month, day or None)
split_wid(parts) ==
    [year |-> parts[1], month |-> parts[2],
     day |-> IF Len(parts) = 3 THEN parts[3] ELSE ""]

\* the window lists explored: two consecutive days, two consecutive months
\* (and two consecutive weeks, see WindowsOf)
\* (identifiers as cli.py:276-284 hands them over, split at "-")
DailyWindows == << <<"2020", "01", "01">>, <<"2020", "01", "02">> >>
MonthlyWindows == << <<"2020", "01">>, <<"2020", "02">> >>

\* a suffix that ignores the compression
data_suffix_plain(out_format, compression) ==
    IF out_format = "csv" THEN ".csv" ELSE ".parquet"

\* _data_suffix
data_suffix(out_format, compression) ==
    IF out_format = "csv"
    THEN (IF compression = "gzip" THEN ".csv.gz" ELSE ".csv")
    ELSE ".parquet"

\* _suffix_candidates, as a set (the callers only count the matches)
suffix_candidates(out_format, compression) ==
    LET primary == data_suffix(out_format, compression)
        extras == IF out_format = "csv" THEN {".csv", ".csv.gz"} ELSE {".parquet"}
    IN {primary} \cup extras

\* Path.with_suffix: the last suffix of the name replaced
Stem(suf) == IF suf = ".csv.gz" THEN ".csv"
             ELSE IF suf = ".manifest.json" THEN ".manifest" ELSE ""
with_suffix(p, s) == [p EXCEPT !.suf = Stem(p.suf) \o s]

\* make_paths
make_paths(c, mode_label, parts, n) ==
    LET wid == WidStr(parts)
        sp == split_wid(parts)
        suffix == data_suffix(c.out_format, c.compression)
        base_dir ==
            IF c.layout = "nested" THEN c.out_root \o <<mode_label, wid>>
            ELSE IF c.layout = "mode-flat" THEN c.out_root \o <<mode_label>>
            ELSE IF c.layout = "flat" THEN c.out_root
            ELSE IF c.layout = "ymd"
                 THEN (IF sp.day # ""
                       THEN c.out_root \o <<mode_label, sp.year, sp.month, sp.day>>
                       ELSE c.out_root \o <<mode_label, sp.year, sp.month>>)
            ELSE c.out_root \o <<mode_label, wid>>
        pre == IF c.layout = "flat" THEN mode_label \o "_" \o wid ELSE wid
    IN [base_dir |-> base_dir,
        data_path |-> [dir |-> base_dir, pre |-> pre, no |-> n, suf |-> suffix],
        manifest_path |-> [dir |-> base_dir, pre |-> pre, no |-> n,
                           suf |-> ".manifest.json"]]

\* ------------------------------------------------------------ dates
\* a date option of the command line: absent, or a text; a text of the shape
\* dddd-dd-dd carries its three numbers
NoDate == [shape |-> "none", text |-> "", y |-> 0, m |-> 0, d |-> 0]
DateText(text, y, m, d) == [shape |-> "ymd", text |-> text, y |-> y, m |-> m, d |-> d]
BadText(text) == [shape |-> "other", text |-> text, y |-> 0, m |-> 0, d |-> 0]

IsLeap(y) == (y % 4 = 0 /\ y % 100 # 0) \/ y % 400 = 0

\* soql.py:10-12: calendar.monthrange(y, m)[1]
last_day_of_month(y, m) ==
    IF m = 2 THEN (IF IsLeap(y) THEN 29 ELSE 28)
    ELSE IF m \in {4, 6, 9, 11} THEN 30 ELSE 31

\* a parse_date that rejects a day past the end of its month
parse_date_strict(t) ==
    IF t.shape = "none"
    THEN [kind |-> "none", y |-> 0, m |-> 0, d |-> 0, warned |-> FALSE]
    ELSE IF t.shape # "ymd" \/ t.m \notin 1..12 \/ t.d = 0 \/ t.y = 0
            \/ t.d > last_day_of_month(t.y, t.m)
    THEN [kind |-> "raise", y |-> 0, m |-> 0, d |-> 0, warned |-> FALSE]
    ELSE [kind |-> "date", y |-> t.y, m |-> t.m, d |-> t.d, warned |-> FALSE]

\* soql.py:15-28: parse_date: None for an absent date; ValueError for a text
\* of another shape, a month outside 1..12 or a day 0; a day past the end of
\* the month is replaced by the last day, and a warning is logged
parse_date(t) ==
    IF t.shape = "none"
    THEN [kind |-> "none", y |-> 0, m |-> 0, d |-> 0, warned |-> FALSE]
    ELSE IF t.shape # "ymd" \/ t.m \notin 1..12 \/ t.d = 0 \/ t.y = 0
    THEN [kind |-> "raise", y |-> 0, m |-> 0, d |-> 0, warned |-> FALSE]
    ELSE [kind |-> "date", y |-> t.y, m |-> t.m,
          d |-> Min(t.d, last_day_of_month(t.y, t.m)),
          warned |-> t.d > last_day_of_month(t.y, t.m)]

\* soql.py:47-58: datetime.strptime(text, "%Y-%m-%d") succeeds (a date that is
\* present is parsed, without clamping)
strptime_ok(t) ==
    t.shape = "none"
    \/ (t.shape = "ymd" /\ t.y # 0 /\ t.m \in 1..12
        /\ t.d \in 1..last_day_of_month(t.y, t.m))

\* date comparison
DateBefore(a, b) ==
    a.y < b.y \/ (a.y = b.y /\ (a.m < b.m \/ (a.m = b.m /\ a.d < b.d)))

\* ------------------------------------------------- the window generators
\* datetime.date as its proleptic Gregorian ordinal (date.toordinal)
toordinal(y, m, d) ==
    LET RECURSIVE DaysBeforeMonth(_)
        DaysBeforeMonth(k) ==
            IF k = 1 THEN 0 ELSE DaysBeforeMonth(k - 1) + last_day_of_month(y, k - 1)
        DaysBeforeYear ==
            (y - 1) * 365 + ((y - 1) \div 4) - ((y - 1) \div 100) + ((y - 1) \div 400)
    IN DaysBeforeYear + DaysBeforeMonth(m) + d

\* the years the explored dates fall in
Years == 2019..2026

\* date.fromordinal
fromordinal(n) ==
    LET y == CHOOSE yy \in Years : toordinal(yy, 1, 1) <= n /\ n < toordinal(yy + 1, 1, 1)
        m == CHOOSE mm \in 1..12 :
                 /\ toordinal(y, mm, 1) <= n
                 /\ n <= toordinal(y, mm, last_day_of_month(y, mm))
    IN [y |-> y, m |-> m, d |-> n - toordinal(y, m, 1) + 1]

\* date.weekday: Monday is 0
weekday(n) == (n + 6) % 7

\* date.isocalendar: the ISO year and week are those of the week's Thursday
isocalendar(n) ==
    LET thursday == n - weekday(n) + 3
        y == fromordinal(thursday).y
    IN [year |-> y, week |-> ((thursday - toordinal(y, 1, 1)) \div 7) + 1]

\* format specs :02d and :04d
Pad2(n) ==
    LET DigitStr == <<"0", "1", "2", "3", "4", "5", "6", "7", "8", "9">>
    IN DigitStr[((n \div 10) % 10) + 1] \o DigitStr[(n % 10) + 1]
Pad4(n) == Pad2(n \div 100) \o Pad2(n % 100)

\* strftime("%Y-%m-%d")
isoformat(n) ==
    LET t == fromordinal(n) IN Pad4(t.y) \o "-" \o Pad2(t.m) \o "-" \o Pad2(t.d)

\* date.replace(day=1)
first_of_month(n) == n - fromordinal(n).d + 1

\* soql.py:106-114
day_windows(start, end) ==
    LET RECURSIVE loop(_)
        loop(cur) ==
            IF cur <= end
            THEN <<[s |-> cur, e |-> cur, wid |-> isoformat(cur)]>> \o loop(cur + 1)
            ELSE <<>>
    IN loop(start)

\* soql.py:117-127
week_windows(start, end) ==
    LET RECURSIVE loop(_)
        loop(cur) ==
            IF cur <= end
            THEN LET week_start == cur
                     week_end == Min(cur + 6, end)
                     wid == Pad4(fromordinal(week_start).y) \o "-W"
                                \o Pad2(isocalendar(week_start).week)
                 IN <<[s |-> week_start, e |-> week_end, wid |-> wid]>> \o loop(cur + 7)
            ELSE <<>>
    IN loop(start - weekday(start))

\* soql.py:88-103
month_windows(start, end) ==
    LET next_m == first_of_month(first_of_month(end) + 32)
        last_end == next_m - 1
        RECURSIVE loop(_)
        loop(cur) ==
            IF cur <= last_end
            THEN LET nm == first_of_month(cur + 32)
                     cur_end == IF nm - 1 > end THEN end ELSE nm - 1
                     t == fromordinal(cur)
                     win_id == Pad4(t.y) \o "-" \o Pad2(t.m)
                     win_start == Max(cur, start)
                 IN <<[s |-> win_start, e |-> cur_end, wid |-> win_id]>> \o loop(nm)
            ELSE <<>>
    IN loop(first_of_month(start))

\* ------------------------------------------------- the query builders
\* str() of a natural number
RECURSIVE Str(_)
Str(n) ==
    LET DigitStr == <<"0", "1", "2", "3", "4", "5", "6", "7", "8", "9">>
    IN IF n < 10 THEN DigitStr[n + 1] ELSE Str(n \div 10) \o DigitStr[(n % 10) + 1]

\* a projection: None, or the text of $select (one-element sequence)
NoSelect == <<>>

\* day bounds carrying a UTC suffix
soql_day_bounds_utc(d) ==
    [start |-> isoformat(d) \o "T00:00:00.000Z",
     end_next |-> isoformat(d + 1) \o "T00:00:00.000Z"]

\* soql.py:31-35: _soql_day_bounds
soql_day_bounds(d) ==
    [start |-> isoformat(d) \o "T00:00:00.000",
     end_next |-> isoformat(d + 1) \o "T00:00:00.000"]

\* the $select entry of a parameter dict, if a projection is given
SelectOf(select) == IF select = NoSelect THEN <<>> ELSE ("$select" :> select[1])

\* a builder that orders the first page only
soql_params_window_unordered(off, limit, start_d, end_d, select) ==
    IF off = 0
    THEN ("$limit" :> Str(limit)) @@ ("$offset" :> Str(off)) @@ ("$order" :> "date desc")
    ELSE ("$limit" :> Str(limit)) @@ ("$offset" :> Str(off))

\* soql.py:66-85
soql_params_window(off, limit, start_d, end_d, select) ==
    LET s_iso == soql_day_bounds(start_d).start
        e_next_iso == isoformat(end_d + 1) \o "T00:00:00.000"
    IN ("$limit" :> Str(limit)) @@ ("$offset" :> Str(off)) @@ ("$order" :> "date desc")
        @@ ("$where" :> "date >= '" \o s_iso \o "' AND date < '" \o e_next_iso \o "'")
        @@ SelectOf(select)

\* a builder that never filters
soql_params_unfiltered(off, limit, start_date, end_date, select) ==
    ("$limit" :> Str(limit)) @@ ("$offset" :> Str(off)) @@ ("$order" :> "date desc")
        @@ SelectOf(select)

\* soql.py:38-63: a date option that is present is parsed by strptime, which
\* raises ValueError for a text that is no date
soql_params(off, limit, start_date, end_date, select) ==
    LET params == ("$limit" :> Str(limit)) @@ ("$offset" :> Str(off))
                      @@ ("$order" :> "date desc") @@ SelectOf(select)
        has_s == start_date.shape # "none"
        has_e == end_date.shape # "none"
        s_iso == soql_day_bounds(toordinal(start_date.y, start_date.m, start_date.d)).start
        e_next_iso == isoformat(toordinal(end_date.y, end_date.m, end_date.d) + 1)
                          \o "T00:00:00.000"
    IN IF (has_s /\ ~strptime_ok(start_date)) \/ (has_e /\ ~strptime_ok(end_date))
       THEN ("raise" :> "ValueError")
       ELSE IF has_s /\ has_e
       THEN params @@ ("$where" :> "date >= '" \o s_iso \o "' AND date < '"
                                     \o e_next_iso \o "'")
       ELSE IF has_s THEN params @@ ("$where" :> "date >= '" \o s_iso \o "'")
       ELSE IF has_e THEN params @@ ("$where" :> "date < '" \o e_next_iso \o "'")
       ELSE params

\* http_client.py:56-58: the parameters of the count probe of day d
probe_params(d) ==
    LET s == isoformat(d) \o "T00:00:00.000"
        e == isoformat(d + 1) \o "T00:00:00.000"
    IN ("$select" :> "count(1)")
        @@ ("$where" :> "date >= '" \o s \o "' AND date < '" \o e \o "'")

\* the window lists explored, as the generators return them (cli.py:276-284)
GeneratedWindows ==
    [daily |-> day_windows(toordinal(2020, 1, 1), toordinal(2020, 1, 2)),
     weekly |-> week_windows(toordinal(2020, 1, 6), toordinal(2020, 1, 19)),
     monthly |-> month_windows(toordinal(2020, 1, 1), toordinal(2020, 2, 29))]

\* the spans of the windows handed to run_windowed_mode
WindowSpans(mode_label) ==
    IF mode_label = "daily" THEN GeneratedWindows.daily
    ELSE IF mode_label = "weekly" THEN GeneratedWindows.weekly
    ELSE GeneratedWindows.monthly

\* the paths run_offset_mode builds for chunk n (runners.py:29-34, 54-55)
offset_paths(c, n) ==
    LET window_id ==
            IF c.start_date.shape = "none" /\ c.end_date.shape = "none" THEN "all"
            ELSE (IF c.start_date.shape = "none" THEN "0000-00-00"
                  ELSE c.start_date.text)
                 \o "_to_"
                 \o (IF c.end_date.shape = "none" THEN "9999-12-31"
                     ELSE c.end_date.text)
        base_dir == c.out_root \o <<"full", window_id>>
    IN [base_dir |-> base_dir,
        data_path |-> [dir |-> base_dir, pre |-> "", no |-> n,
                       suf |-> "." \o c.out_format],
        manifest_path |-> [dir |-> base_dir, pre |-> "", no |-> n,
                           suf |-> ".manifest.json"]]

Exists(p) == p \in DOMAIN data_files \/ p \in DOMAIN manifests
AllFiles == DOMAIN data_files \cup DOMAIN manifests

\* resume_index_for_layout: the files of base_dir matching the layout's glob
\* for one of the candidate suffixes
resume_index_for_layout(base_dir, parts, mode_label, out_format, layout, compression) ==
    LET suffixes == suffix_candidates(out_format, compression)
        wid == WidStr(parts)
        Match(f) ==
            /\ f.dir = base_dir
            /\ f.suf \in suffixes
            /\ IF layout = "mode-flat" THEN f.pre = wid
               ELSE IF layout = "flat" THEN f.pre = mode_label \o "_" \o wid
               ELSE TRUE
    IN IF base_dir \in dirs THEN Cardinality({f \in AllFiles : Match(f)}) ELSE 0

\* resume_index(dir_, prefix=None): glob chunk_*<suffix> for the three suffixes
resume_index(dir_) ==
    Cardinality({f \in AllFiles :
        f.dir = dir_ /\ f.pre = "" /\ f.suf \in {".parquet", ".csv", ".csv.gz"}})

\* resume_index with a prefix and an out_format: glob <prefix>_chunk_*<suffix>
\* for the candidate suffixes of the format
resume_index_with(dir_, prefix, out_format, compression) ==
    LET suffixes == suffix_candidates(out_format, compression)
    IN Cardinality({f \in AllFiles :
           f.dir = dir_ /\ f.pre = prefix /\ f.suf \in suffixes})

\* ------------------------------------------------------------ chunk writer
\* a fallback that writes under the planned name
write_frame_keeps_name(path, out_format, compression, engine) == path

\* write_frame: the path actually written (parquet falls back to CSV when no
\* engine is importable)
write_frame_path(path, out_format, compression, engine) ==
    IF out_format = "parquet"
    THEN (IF engine THEN path
          ELSE LET csv_path == with_suffix(path, ".csv")
               IN IF compression = "gzip" THEN with_suffix(csv_path, ".csv.gz")
                  ELSE csv_path)
    ELSE path

\* write_frame: the encoding of the bytes written. to_parquet without a
\* compression argument uses its default codec ("parquet"); to_csv without a
\* compression argument infers gzip from a file name ending in .gz
write_frame_enc(path, out_format, compression, engine) ==
    IF out_format = "parquet" /\ engine
    THEN (IF compression = "none" THEN "parquet" ELSE "parquet+" \o compression)
    ELSE IF compression = "gzip" THEN "csv+gzip"
    ELSE IF write_frame_path(path, out_format, compression, engine).suf = ".csv.gz"
    THEN "csv+gzip"
    ELSE "csv"

\* write_manifest: the manifest's payload (the fields the claims read);
\* compression is the keyword argument of the call ("none" when omitted)
manifest_of(data_path, rows, off, compression) ==
    [data_file |-> data_path,
     rows |-> rows,
     sha256 |-> data_path \in DOMAIN data_files,
     offset |-> off,
     compression |-> compression]

\* ------------------------------------------------------------ source
\* the page a 200 response carries for $offset = off, $limit = limit
Page(w, off, limit) == Min(limit, Max(0, src[w] - off))

\* the windows handed to run_windowed_mode
WindowsOf(mode_label) ==
    IF mode_label = "daily" THEN DailyWindows
    ELSE IF mode_label = "weekly" THEN << <<"2020", "W02">>, <<"2020", "W03">> >>
    ELSE MonthlyWindows
windows == WindowsOf(cfg.mode_label)
NWindows == Len(windows)

\* ------------------------------------------------------------ directory pruning
IsEmptyDir(ds, d) ==
    /\ \A f \in AllFiles : f.dir # d
    /\ \A e \in ds : ~(Len(e) = Len(d) + 1 /\ SubSeq(e, 1, Len(d)) = d)

\* a pruning that removes an empty base directory whoever created it
prune_whenever_empty(ds, base_dir) ==
    IF base_dir \in ds /\ IsEmptyDir(ds, base_dir) THEN ds \ {base_dir} ELSE ds

\* runners.py:151-157 and 190-196
prune(ds, base_dir) ==
    IF created_this_run /\ ~wrote_any
    THEN (IF base_dir \in ds /\ IsEmptyDir(ds, base_dir) THEN ds \ {base_dir} ELSE ds)
    ELSE ds

\* ------------------------------------------------------------ safe_request
IdleReq == [kind |-> "none", attempt |-> 0, backoff |-> 0, gets |-> 0, params |-> <<>>]
NoRet == [kind |-> "none", rows |-> 0, count |-> 0, via |-> "none", gets |-> 0]

\* http_client.py:31: a call starts with attempt 1 and backoff 2
NewReq(kind, params) ==
    [kind |-> kind, attempt |-> 1, backoff |-> 2, gets |-> 0, params |-> params]

\* a loop bound that is off by one: range(1, retries + 2)
attempts_left_off_by_one(attempt) == attempt <= cfg.retries

\* http_client.py:32: the for loop has another attempt after this one
attempts_left(attempt) == attempt < cfg.retries

\* a failure that is never taken for the last one
last_attempt_never(attempt) == FALSE

\* http_client.py:45
last_attempt(attempt) == attempt = cfg.retries

\* a doubling without the cap
next_backoff_uncapped(b) == b * 2

\* http_client.py:39, 48
next_backoff(b) == Min(b * 2, 60)

\* http_client.py:49: the value returned when the for loop runs out
exhausted_ret(gets) ==
    [kind |-> "rows", rows |-> 0, count |-> 0, via |-> "exhausted", gets |-> gets]

\* the GET about to be sent is the first of a call started with the flag set
AfterStop == IF req.gets = 0 /\ stop_requested THEN 1 ELSE 0

InCall == pc \in {"fetch", "probe"}
RetPc == IF pc = "fetch" THEN "fetch_ret" ELSE "probe_ret"
StreamOf == IF cfg.runMode = "full" THEN 1 ELSE wi

\* http_client.py:38-40, 47-48: sleep, double the backoff, next iteration of the
\* for loop; the function returns [] when the loop has run out
Retry ==
    IF attempts_left(req.attempt)
    THEN /\ req' = [req EXCEPT !.attempt = @ + 1, !.backoff = next_backoff(@),
                               !.gets = @ + 1]
         /\ UNCHANGED <<ret, pc>>
    ELSE /\ ret' = exhausted_ret(req.gets + 1)
         /\ req' = IdleReq
         /\ pc' = RetPc

\* the bodies a 200 response may carry: the page, or for the count probe one
\* row holding the count or a row the count cannot be read from
Bodies == IF pc = "probe" THEN {"count", "malformed"} ELSE {"page"}

\* http_client.py:34, 41-42: a 200 response; its body is returned. A row fetch
\* gets the page at $offset; the count probe gets one row.
GetOk ==
    /\ InCall
    /\ \E body \in Bodies :
         ret' = [kind |-> "rows",
                 rows |-> IF body = "page" THEN Page(StreamOf, offset, cfg.chunk_size)
                          ELSE 1,
                 count |-> IF body = "count" THEN src[wi] ELSE 0,
                 via |-> IF body = "malformed" THEN "200-malformed" ELSE "200",
                 gets |-> req.gets + 1]
    /\ req' = IdleReq
    /\ pc' = RetPc
    /\ h' = [h EXCEPT !.callsAfterStop = @ + AfterStop]
    /\ UNCHANGED <<cfgvars, run, locals, stop_requested, fs>>

\* http_client.py:35-40: a 429 response
Get429 ==
    /\ InCall
    /\ Retry
    /\ h' = [h EXCEPT !.callsAfterStop = @ + AfterStop]
    /\ UNCHANGED <<cfgvars, run, locals, stop_requested, fs>>

\* http_client.py:43-48: a RequestException (network error, non-2xx status):
\* raised on the last attempt
GetFail ==
    /\ InCall
    /\ IF last_attempt(req.attempt)
       THEN /\ ret' = [kind |-> "raise", rows |-> 0, count |-> 0, via |-> "error",
                       gets |-> req.gets + 1]
            /\ req' = IdleReq
            /\ pc' = RetPc
       ELSE Retry
    /\ h' = [h EXCEPT !.callsAfterStop = @ + AfterStop]
    /\ UNCHANGED <<cfgvars, run, locals, stop_requested, fs>>

\* ------------------------------------------------- safe_request, one call
\* no Retry-After header on the response (a header is the one-element
\* sequence of its value)
NoHeader == <<>>

NoEval == [fn |-> "none", arg |-> <<>>, out |-> <<>>]

NoCall == [resp |-> <<>>, attempt |-> 0, backoff |-> 0, gets |-> 0, sleeps |-> <<>>,
           outcome |-> "none", rows |-> 0, prev |-> 0]

\* a 429 whose sleep ignores the Retry-After header
wait_ignores_header(retry_after, backoff) == backoff

\* http_client.py:36: int(r.headers.get("Retry-After", backoff))
wait_429(retry_after, backoff) ==
    IF retry_after = NoHeader THEN backoff ELSE retry_after[1]

\* http_client.py:32-49: one iteration of the for loop: the GET of this attempt
\* is answered by the next upstream response
RequestStep ==
    /\ call.outcome = "running"
    /\ LET r == call.resp[call.gets + 1]
           sent == [call EXCEPT !.gets = @ + 1]
           \* lines 38-39, 47-48: sleep, double the backoff, next iteration or
           \* the end of the loop and line 49
           again(wait) ==
               LET c == [sent EXCEPT !.sleeps = Append(@, wait),
                                     !.backoff = next_backoff(@)]
               IN IF attempts_left(call.attempt)
                  THEN [c EXCEPT !.attempt = @ + 1]
                  ELSE [c EXCEPT !.outcome = "rows", !.rows = 0]
       IN call' = IF r.status = "429" THEN again(wait_429(r.retry_after, call.backoff))
                  ELSE IF r.status = "200"
                  THEN [sent EXCEPT !.outcome = "rows", !.rows = r.rows]
                  ELSE IF last_attempt(call.attempt)
                  THEN [sent EXCEPT !.outcome = "raise"]
                  ELSE again(call.backoff)
    /\ UNCHANGED <<cfg, src, eval, run, pc, locals, req, ret, stop_requested, fs, h>>

\* ------------------------------------------------------------ run_windowed_mode
\* a poll that never sees the flag
no_window_poll == FALSE
no_loop_poll == FALSE

\* runners.py:102: the poll of the module-level flag at the top of the for loop
stop_at_window == stop_requested

\* runners.py:132 and 47: the poll at the top of the fetch loop
stop_in_loop == stop_requested

\* a probe in every windowed mode
do_preflight_any_mode == cfg.preflight

\* runners.py:107
do_preflight == cfg.mode_label = "daily" /\ cfg.preflight

\* a window that creates its directory before its first fetch
window_dirs_eager(base_dir) == ensure_dir(dirs, base_dir)

\* runners.py:115-118: base_dir is computed and tested, not created
window_dirs(base_dir) == dirs

\* a resume position that starts on the last chunk already written
start_chunk_same(start_idx) == start_idx

\* a resumed run that pages from the first row again
start_offset_zero(start_idx) == 0

\* runners.py:126 and 38: the resume offset
start_offset(start_idx) == start_idx * cfg.chunk_size

\* runners.py:127 and 39: the first chunk number considered
start_chunk(start_idx) == start_idx + 1

BaseDir(w) == make_paths(cfg, cfg.mode_label, windows[w], 1).base_dir

\* runners.py:115-129: the start of a window: resume position (hb: the history
\* so far)
EnterWindow(hb) ==
    LET base_dir == BaseDir(wi)
        base_dir_existed == base_dir \in dirs
        start_idx == IF base_dir_existed
                     THEN resume_index_for_layout(base_dir, windows[wi],
                              cfg.mode_label, cfg.out_format, cfg.layout, "none")
                     ELSE 0
    IN /\ offset' = start_offset(start_idx)
       /\ chunk_no' = start_chunk(start_idx)
       /\ wrote_any' = FALSE
       /\ created_this_run' = FALSE
       /\ dirs' = window_dirs(base_dir)
       /\ pc' = "loop_top"
       /\ h' = [hb EXCEPT !.winDirs = dirs, !.winFiles = AllFiles, !.winFetches = 0,
                         !.firstEmpty = FALSE,
                         !.started = @ \cup {[w |-> wi, no |-> start_chunk(start_idx)]}]

\* runners.py:190-196 and the for loop's next iteration
EndWindow(ds) ==
    /\ dirs' = prune(ds, BaseDir(wi))
    /\ wi' = wi + 1
    /\ pc' = "win_top"

\* the history once window wi is about to start: whether the flag was set then
AtTop ==
    IF stop_requested
    THEN [h EXCEPT !.flagAtTop = @ \cup {wi}, !.stopDirs = dirs]
    ELSE h

\* runners.py:100-113: top of the for loop
WindowTop ==
    /\ cfg.runMode = "windowed"
    /\ pc = "win_top"
    /\ IF wi > NWindows
       THEN /\ pc' = "done"
            /\ UNCHANGED <<locals, req, dirs, h>>
       ELSE IF stop_at_window
       THEN /\ pc' = "done"
            /\ h' = [AtTop EXCEPT !.stopAt = "window"]
            /\ UNCHANGED <<locals, req, dirs>>
       ELSE IF do_preflight
       THEN /\ pc' = "probe"
            /\ req' = NewReq("probe", probe_params(WindowSpans(cfg.mode_label)[wi].s))
            /\ h' = [AtTop EXCEPT !.probes = @ \cup {wi}]
            /\ UNCHANGED <<locals, dirs>>
       ELSE /\ EnterWindow(AtTop)
            /\ UNCHANGED <<wi, data, actual_path, req>>
    /\ UNCHANGED <<cfgvars, run, ret, stop_requested, data_files, manifests>>

\* a probe that takes a failure for "rows may exist"
probe_count_fail_open(r) == IF r.kind = "raise" THEN 1 ELSE r.count

\* http_client.py:59-69: probe_count_for_day: the count of the body's first
\* row; an exception, an empty body or an unreadable row give 0
probe_count_for_day(r) ==
    IF r.kind = "raise" \/ r.rows = 0 \/ r.via = "200-malformed" THEN 0 ELSE r.count

\* the probe of window wi has ended without reporting rows
ProbedNothing ==
    [h EXCEPT !.probeZero = @ \cup {[w |-> wi, via |-> ret.via]}]

\* runners.py:109-113: the probe's result: a count of zero skips the window
ProbeReturn ==
    /\ pc = "probe_ret"
    /\ LET cnt == probe_count_for_day(ret)
           hb == IF ret.via = "200" /\ ret.count > 0 THEN h ELSE ProbedNothing
       IN IF cnt = 0
          THEN /\ wi' = wi + 1
               /\ pc' = "win_top"
               /\ h' = hb
               /\ UNCHANGED <<chunk_no, offset, wrote_any, created_this_run, dirs>>
          ELSE /\ EnterWindow(hb)
               /\ UNCHANGED wi
    /\ UNCHANGED <<cfgvars, run, data, actual_path, req, ret, stop_requested,
                   data_files, manifests>>

\* runners.py:138 and 56: both artifacts of the planned chunk are present
chunk_done(p) == p.data_path \in DOMAIN data_files /\ p.manifest_path \in DOMAIN manifests

\* the part of the fetch loop's top both orchestrators share (runners.py:132-146,
\* 47-63) once the paths p of the current chunk are planned
LoopBody(p, params) ==
    IF chunk_done(p)
    THEN /\ offset' = offset + cfg.chunk_size
         /\ chunk_no' = chunk_no + 1
         /\ h' = [h EXCEPT !.skipped = @ \cup {[w |-> wi, no |-> chunk_no]}]
         /\ UNCHANGED <<pc, req>>
    ELSE /\ pc' = "fetch"
         /\ req' = NewReq("fetch", params)
         /\ h' = [h EXCEPT !.fetches = @ \cup {[w |-> wi, no |-> chunk_no,
                                               off |-> offset]},
                           !.winFetches = @ + 1]
         /\ UNCHANGED <<chunk_no, offset>>

\* runners.py:131-146: top of the fetch loop
WindowLoopTop ==
    /\ cfg.runMode = "windowed"
    /\ pc = "loop_top"
    /\ IF stop_in_loop
       THEN /\ pc' = "done"
            /\ h' = [h EXCEPT !.stopAt = "loop"]
            /\ UNCHANGED <<chunk_no, offset, req>>
       ELSE LET span == WindowSpans(cfg.mode_label)[wi]
            IN LoopBody(make_paths(cfg, cfg.mode_label, windows[wi], chunk_no),
                        soql_params_window(offset, cfg.chunk_size, span.s, span.e,
                                           cfg.select))
    /\ UNCHANGED <<cfgvars, run, wi, wrote_any, created_this_run, data, actual_path,
                   ret, stop_requested, fs>>

\* a fetch error that is not caught
window_error_uncaught == "raised"

\* runners.py:158: a fetch error leaves the while loop; the for loop goes on
window_error_pc == "win_top"

\* runners.py:147-162: the outcome of safe_request
WindowFetchReturn ==
    /\ cfg.runMode = "windowed"
    /\ pc = "fetch_ret"
    /\ IF ret.kind = "raise"
       THEN /\ dirs' = prune(prune(dirs, BaseDir(wi)), BaseDir(wi))
            /\ wi' = IF window_error_pc = "win_top" THEN wi + 1 ELSE wi
            /\ pc' = window_error_pc
            /\ h' = [h EXCEPT !.fetchErrors = @ \cup {wi}]
            /\ UNCHANGED data
       ELSE IF ret.rows = 0
       THEN /\ EndWindow(dirs)
            /\ h' = [h EXCEPT !.firstEmpty = (h.winFetches = 1),
                              !.ended = @ \cup {[w |-> wi, via |-> ret.via]}]
            /\ UNCHANGED data
       ELSE /\ data' = ret.rows
            /\ pc' = "write_frame"
            /\ h' = [h EXCEPT !.gotRows = @ \cup {[w |-> wi, no |-> chunk_no]}]
            /\ UNCHANGED <<wi, dirs>>
    /\ UNCHANGED <<cfgvars, run, chunk_no, offset, wrote_any, created_this_run,
                   actual_path, req, ret, stop_requested, data_files, manifests>>

\* the content of a data file: encoding, and the rows it holds
Content(enc) == [enc |-> enc, w |-> StreamOf, off |-> offset, rows |-> data]

\* runners.py:164-169: lazy creation of base_dir, then write_frame; an error
\* raised by the writer leaves run_windowed_mode
WindowWriteFrame ==
    /\ cfg.runMode = "windowed"
    /\ pc = "write_frame"
    /\ LET p == make_paths(cfg, cfg.mode_label, windows[wi], chunk_no)
           path == write_frame_path(p.data_path, cfg.out_format, "none", cfg.engine)
           made == p.base_dir \notin dirs
       IN /\ dirs' = ensure_dir(dirs, p.base_dir)
          /\ created_this_run' = (created_this_run \/ made)
          /\ \E ok \in BOOLEAN :
               IF ok
               THEN /\ data_files' = (path :> Content(write_frame_enc(p.data_path,
                                                          cfg.out_format, "none",
                                                          cfg.engine)))
                                     @@ data_files
                    /\ actual_path' = path
                    /\ pc' = "write_manifest"
                    /\ h' = [h EXCEPT !.writes = @ \cup {path},
                               !.createdBase = IF made THEN @ \cup {p.base_dir} ELSE @]
               ELSE /\ pc' = "raised"
                    /\ h' = [h EXCEPT
                               !.createdBase = IF made THEN @ \cup {p.base_dir} ELSE @]
                    /\ UNCHANGED <<data_files, actual_path>>
    /\ UNCHANGED <<cfgvars, run, wi, chunk_no, offset, wrote_any, data, req, ret,
                   stop_requested, manifests>>

\* a loop that ends on an empty page only
never_last_page(rows) == FALSE

\* runners.py:182 and 82: the page is the last one of its window
last_page(rows) == rows < cfg.chunk_size

\* history of a completed chunk write
Wrote(mp) ==
    [h EXCEPT !.writes = @ \cup {mp},
              !.short = IF data < cfg.chunk_size
                        THEN @ \cup {[w |-> wi, no |-> chunk_no]} ELSE @,
              !.sleptAfter = IF last_page(data) THEN @
                             ELSE @ \cup {[w |-> wi, no |-> chunk_no]},
              !.ended = IF last_page(data) THEN @ \cup {[w |-> wi, via |-> "short"]}
                        ELSE @]

\* runners.py:170-188: write_manifest, then last-page detection (wrote_any is
\* set, so the pruning of line 190 does nothing) or the next chunk and the
\* polite sleep
WindowWriteManifest ==
    /\ cfg.runMode = "windowed"
    /\ pc = "write_manifest"
    /\ LET p == make_paths(cfg, cfg.mode_label, windows[wi], chunk_no)
       IN \E ok \in BOOLEAN :
            IF ok
            THEN /\ manifests' = (p.manifest_path :> manifest_of(actual_path, data, offset,
                                                                   "none"))
                                 @@ manifests
                 /\ wrote_any' = TRUE
                 /\ h' = Wrote(p.manifest_path)
                 /\ IF last_page(data)
                    THEN /\ wi' = wi + 1
                         /\ pc' = "win_top"
                         /\ UNCHANGED <<chunk_no, offset>>
                    ELSE /\ offset' = offset + cfg.chunk_size
                         /\ chunk_no' = chunk_no + 1
                         /\ pc' = "loop_top"
                         /\ UNCHANGED wi
            ELSE /\ pc' = "raised"
                 /\ UNCHANGED <<manifests, wrote_any, wi, chunk_no, offset, h>>
    /\ UNCHANGED <<cfgvars, run, created_this_run, data, actual_path, req, ret,
                   stop_requested, dirs, data_files>>

\* ------------------------------------------------------------ run_offset_mode
\* runners.py:29-41: base_dir is created at once, then the resume position
OffsetInit ==
    /\ cfg.runMode = "full"
    /\ pc = "off_init"
    /\ LET base_dir == offset_paths(cfg, 1).base_dir
           start_idx == resume_index(base_dir)
       IN /\ dirs' = ensure_dir(dirs, base_dir)
          /\ offset' = start_offset(start_idx)
          /\ chunk_no' = start_chunk(start_idx)
          /\ h' = [h EXCEPT
                     !.createdBase = IF base_dir \in dirs THEN @ ELSE @ \cup {base_dir},
                     !.started = @ \cup {[w |-> wi, no |-> start_chunk(start_idx)]}]
    /\ pc' = "loop_top"
    /\ UNCHANGED <<cfgvars, run, wi, wrote_any, created_this_run, data, actual_path,
                   req, ret, stop_requested, data_files, manifests>>

\* a cap that lets one chunk too many through
cap_reached_late(n) == cfg.max_chunks # 0 /\ n > cfg.max_chunks + 1

\* runners.py:50: the cap on the chunk number (None and 0 are both falsy)
cap_reached(n) == cfg.max_chunks # 0 /\ n > cfg.max_chunks

\* runners.py:45-63: top of the fetch loop
OffsetLoopTop ==
    /\ cfg.runMode = "full"
    /\ pc = "loop_top"
    /\ IF stop_in_loop
       THEN /\ pc' = "done"
            /\ h' = [h EXCEPT !.stopAt = "loop"]
            /\ UNCHANGED <<chunk_no, offset, req>>
       ELSE IF cap_reached(chunk_no)
       THEN /\ pc' = "done"
            /\ UNCHANGED <<chunk_no, offset, req, h>>
       ELSE IF ~chunk_done(offset_paths(cfg, chunk_no))
               /\ ~(strptime_ok(cfg.start_date) /\ strptime_ok(cfg.end_date))
       THEN \* runners.py:62: soql_params raises ValueError, outside the try
            /\ pc' = "raised"
            /\ UNCHANGED <<chunk_no, offset, req, h>>
       ELSE LoopBody(offset_paths(cfg, chunk_no),
                     soql_params(offset, cfg.chunk_size, cfg.start_date, cfg.end_date,
                                 cfg.select))
    /\ UNCHANGED <<cfgvars, run, wi, wrote_any, created_this_run, data, actual_path,
                   ret, stop_requested, fs>>

\* runners.py:69: a fetch error ends the run
offset_error_pc == "done"

\* runners.py:65-72: the outcome of safe_request
OffsetFetchReturn ==
    /\ cfg.runMode = "full"
    /\ pc = "fetch_ret"
    /\ IF ret.kind = "raise"
       THEN /\ pc' = offset_error_pc
            /\ h' = [h EXCEPT !.fetchErrors = @ \cup {wi}]
            /\ UNCHANGED data
       ELSE IF ret.rows = 0
       THEN /\ pc' = "done"
            /\ h' = [h EXCEPT !.ended = @ \cup {[w |-> wi, via |-> ret.via]}]
            /\ UNCHANGED data
       ELSE /\ data' = ret.rows
            /\ pc' = "write_frame"
            /\ h' = [h EXCEPT !.gotRows = @ \cup {[w |-> wi, no |-> chunk_no]}]
    /\ UNCHANGED <<cfgvars, run, wi, chunk_no, offset, wrote_any, created_this_run,
                   actual_path, req, ret, stop_requested, fs>>

\* runners.py:74-75: write_frame; the path it returns is not kept
OffsetWriteFrame ==
    /\ cfg.runMode = "full"
    /\ pc = "write_frame"
    /\ LET p == offset_paths(cfg, chunk_no)
           path == write_frame_path(p.data_path, cfg.out_format, "none", cfg.engine)
       IN \E ok \in BOOLEAN :
            IF ok
            THEN /\ data_files' = (path :> Content(write_frame_enc(p.data_path,
                                                       cfg.out_format, "none",
                                                       cfg.engine)))
                                  @@ data_files
                 /\ actual_path' = path
                 /\ pc' = "write_manifest"
                 /\ h' = [h EXCEPT !.writes = @ \cup {path}]
            ELSE /\ pc' = "raised"
                 /\ UNCHANGED <<data_files, actual_path, h>>
    /\ UNCHANGED <<cfgvars, run, wi, chunk_no, offset, wrote_any, created_this_run,
                   data, req, ret, stop_requested, dirs, manifests>>

\* runners.py:76-88: write_manifest for the planned path, then last-page
\* detection or the next chunk and the polite sleep
OffsetWriteManifest ==
    /\ cfg.runMode = "full"
    /\ pc = "write_manifest"
    /\ LET p == offset_paths(cfg, chunk_no)
       IN \E ok \in BOOLEAN :
            IF ok
            THEN /\ manifests' = (p.manifest_path :> manifest_of(p.data_path, data, offset,
                                                                   "none"))
                                 @@ manifests
                 /\ h' = Wrote(p.manifest_path)
                 /\ IF last_page(data)
                    THEN /\ pc' = "done"
                         /\ UNCHANGED <<chunk_no, offset>>
                    ELSE /\ offset' = offset + cfg.chunk_size
                         /\ chunk_no' = chunk_no + 1
                         /\ pc' = "loop_top"
            ELSE /\ pc' = "raised"
                 /\ UNCHANGED <<manifests, chunk_no, offset, h>>
    /\ UNCHANGED <<cfgvars, run, wi, wrote_any, created_this_run, data, actual_path,
                   req, ret, stop_requested, dirs, data_files>>

\* ------------------------------------------------------------ environment
Terminated == pc \in {"done", "raised"}

\* cli.py:27-30: the SIGINT handler sets the flag of the runners module
SetStop ==
    /\ ~Terminated
    /\ ~stop_requested
    /\ stop_requested' = TRUE
    /\ UNCHANGED <<cfgvars, run, pc, locals, req, ret, fs, h>>

StartPc == IF cfg.runMode = "full" THEN "off_init" ELSE "win_top"

\* what the current run has done so far, and the tree it started from
NewHistory ==
    [fetches |-> {}, skipped |-> {}, started |-> {}, writes |-> {}, createdBase |-> {},
     gotRows |-> {}, short |-> {}, sleptAfter |-> {}, fetchErrors |-> {},
     probes |-> {}, probeZero |-> {}, flagAtTop |-> {}, callsAfterStop |-> 0, stopAt |-> "none",
     firstEmpty |-> FALSE, stopDirs |-> {}, ended |-> {},
     dirs0 |-> dirs, data0 |-> DOMAIN data_files, manifests0 |-> DOMAIN manifests,
     winDirs |-> dirs, winFiles |-> AllFiles, winFetches |-> 0]

\* a later invocation with the same configuration over the same output tree:
\* a fresh process (runners.py:22: the flag starts False)
StartRun ==
    /\ Terminated
    /\ run < MaxRuns
    /\ run' = run + 1
    /\ pc' = StartPc
    /\ wi' = 1
    /\ chunk_no' = 0
    /\ offset' = 0
    /\ wrote_any' = FALSE
    /\ created_this_run' = FALSE
    /\ data' = 0
    /\ actual_path' = NoPath
    /\ req' = IdleReq
    /\ ret' = NoRet
    /\ stop_requested' = FALSE
    /\ h' = NewHistory
    /\ UNCHANGED <<cfgvars, fs>>

\* ------------------------------------------------------------ configurations
Csv == [out_format |-> "csv", engine |-> TRUE]
Formats == {Csv,
            [out_format |-> "parquet", engine |-> TRUE],
            [out_format |-> "parquet", engine |-> FALSE]}
Layouts == {"nested", "mode-flat", "flat", "ymd"}
Daily == [mode_label |-> "daily", preflight |-> FALSE]
Modes == {Daily,
          [mode_label |-> "daily", preflight |-> TRUE],
          [mode_label |-> "weekly", preflight |-> TRUE],
          [mode_label |-> "monthly", preflight |-> TRUE]}
FullMode == [mode_label |-> "full", preflight |-> FALSE]

Config(runMode, m, f, layout, cs, cap, retries) ==
    [runMode |-> runMode, mode_label |-> m.mode_label, preflight |-> m.preflight,
     out_root |-> <<"raw">>, out_format |-> f.out_format, engine |-> f.engine,
     compression |-> "none", layout |-> layout, chunk_size |-> cs,
     max_chunks |-> cap, retries |-> retries,
     start_date |-> NoDate, end_date |-> NoDate, select |-> NoSelect]

\* the configurations explored: every layout with every format (daily windows,
\* one attempt per request), every mode, and every retry count (nested CSV,
\* with a projection), and every format with the gzip codec (nested)
WindowedConfigs ==
    {Config("windowed", Daily, f, l, cs, 0, 1) :
        f \in Formats, l \in Layouts, cs \in ChunkSizes}
    \cup {Config("windowed", m, Csv, "nested", cs, 0, 1) : m \in Modes, cs \in ChunkSizes}
    \cup {[Config("windowed", Daily, Csv, "nested", cs, 0, r)
               EXCEPT !.select = <<"id,date">>] :
        cs \in ChunkSizes, r \in 1..MaxRetries}
    \cup {[Config("windowed", Daily, f, "nested", cs, 0, 1)
               EXCEPT !.compression = "gzip"] :
        f \in Formats, cs \in ChunkSizes}

FullConfigs ==
    {[Config("full", FullMode, f, "nested", cs, cap, r)
        EXCEPT !.select = IF f = Csv THEN <<"id,date">> ELSE NoSelect] :
        f \in Formats, cs \in ChunkSizes, cap \in 0..MaxCap, r \in 1..MaxRetries}
    \cup {[Config("full", FullMode, Csv, "nested", cs, 0, 1)
               EXCEPT !.compression = "gzip"] : cs \in ChunkSizes}

\* rows held by the windows after the first: none, or one short page
LaterWindowRows == {0, 1}

\* the sources explored: the first window (or the full stream) holds up to
\* MaxRows rows
Sources(c) ==
    IF c.runMode = "full" THEN [{1} -> 0..MaxRows]
    ELSE {q \in [1..Len(WindowsOf(c.mode_label)) -> 0..MaxRows] :
            \A i \in DOMAIN q : i > 1 => q[i] \in LaterWindowRows}

Init ==
    /\ cfg \in WindowedConfigs \cup FullConfigs
    /\ src \in Sources(cfg)
    /\ call = NoCall
    /\ eval = NoEval
    /\ run = 1
    /\ pc = StartPc
    /\ wi = 1
    /\ chunk_no = 0
    /\ offset = 0
    /\ wrote_any = FALSE
    /\ created_this_run = FALSE
    /\ data = 0
    /\ actual_path = NoPath
    /\ req = IdleReq
    /\ ret = NoRet
    /\ stop_requested = FALSE
    /\ dirs = {}
    /\ data_files = <<>>
    /\ manifests = <<>>
    /\ h = NewHistory

Next ==
    \/ WindowTop
    \/ ProbeReturn
    \/ WindowLoopTop
    \/ WindowFetchReturn
    \/ WindowWriteFrame
    \/ WindowWriteManifest
    \/ OffsetInit
    \/ OffsetLoopTop
    \/ OffsetFetchReturn
    \/ OffsetWriteFrame
    \/ OffsetWriteManifest
    \/ GetOk
    \/ Get429
    \/ GetFail
    \/ SetStop
    \/ StartRun

Spec == Init /\ [][Next]_vars

\* ------------------------------------------------- runs over an existing tree
\* the chunks of the first window (or of the full-mode directory) found on
\* disk by the first run: none; chunk 3 alone; chunk 2 alone; a data file
\* without manifest followed by a complete chunk; two complete chunks; a
\* manifest without data file
PreExisting ==
    {<<"absent", "absent", "absent">>,
     <<"absent", "absent", "complete">>,
     <<"absent", "complete", "absent">>,
     <<"data", "complete", "absent">>,
     <<"complete", "complete", "absent">>,
     <<"manifest", "absent", "absent">>}

\* pages of one row: a daily run, a daily run with the count probe, a full
\* run, each with one attempt per request, and a daily run for every retry
\* count
ResumeConfigs ==
    {Config("windowed", m, Csv, "nested", 1, 0, 1) : m \in {d \in Modes : d.mode_label = "daily"}}
    \cup {Config("full", FullMode, Csv, "nested", 1, 0, 1)}
    \cup {Config("windowed", Daily, Csv, "nested", 1, 0, r) : r \in 1..MaxRetries}

\* a first run over an output tree that already holds chunk files
ResumeInit ==
    /\ cfg \in ResumeConfigs
    /\ src \in IF cfg.runMode = "full" THEN [{1} -> 0..ResumeRows]
               ELSE {q \in [1..Len(WindowsOf(cfg.mode_label)) -> 0..ResumeRows] :
                       \A i \in DOMAIN q : i > 1 => q[i] = 0}
    /\ call = NoCall
    /\ eval = NoEval
    /\ run = 1
    /\ pc = StartPc
    /\ wi = 1
    /\ chunk_no = 0
    /\ offset = 0
    /\ wrote_any = FALSE
    /\ created_this_run = FALSE
    /\ data = 0
    /\ actual_path = NoPath
    /\ req = IdleReq
    /\ ret = NoRet
    /\ stop_requested = FALSE
    /\ \E st \in PreExisting :
         LET p(n) == IF cfg.runMode = "full" THEN offset_paths(cfg, n)
                     ELSE make_paths(cfg, cfg.mode_label, windows[1], n)
             held(kinds) == {n \in 1..3 : st[n] \in kinds}
         IN /\ data_files =
                  [f \in {p(n).data_path : n \in held({"data", "complete"})} |->
                      [enc |-> "csv", w |-> 1, off |-> (f.no - 1) * cfg.chunk_size,
                       rows |-> cfg.chunk_size]]
            /\ manifests =
                  [f \in {p(n).manifest_path : n \in held({"manifest", "complete"})} |->
                      [data_file |-> p(f.no).data_path, rows |-> cfg.chunk_size,
                       sha256 |-> TRUE, offset |-> (f.no - 1) * cfg.chunk_size,
                       compression |-> "none"]]
            /\ dirs = IF held({"data", "manifest", "complete"}) = {} THEN {}
                      ELSE ensure_dir({}, p(1).base_dir)
    /\ h = NewHistory

ResumeSpec == ResumeInit /\ [][Next]_vars

\* ------------------------------------------------- one run, to its end
\* the steps of the program and of the server it calls: every statement that
\* is reached is executed, and every GET is answered
Advance ==
    \/ WindowTop
    \/ ProbeReturn
    \/ WindowLoopTop
    \/ WindowFetchReturn
    \/ WindowWriteFrame
    \/ WindowWriteManifest
    \/ OffsetInit
    \/ OffsetLoopTop
    \/ OffsetFetchReturn
    \/ OffsetWriteFrame
    \/ OffsetWriteManifest
    \/ GetOk
    \/ Get429
    \/ GetFail

\* one run over an existing tree; SIGINT may or may not arrive
LiveNext ==
    \/ Advance
    \/ SetStop

LiveSpec == ResumeInit /\ [][LiveNext]_vars /\ WF_vars(Advance)

\* ------------------------------------------------- safe_request on its own
\* the orchestrators at rest: nothing started
Parked ==
    /\ src = [i \in {1} |-> 0]
    /\ run = 1
    /\ pc = "idle"
    /\ wi = 1
    /\ chunk_no = 0
    /\ offset = 0
    /\ wrote_any = FALSE
    /\ created_this_run = FALSE
    /\ data = 0
    /\ actual_path = NoPath
    /\ req = IdleReq
    /\ ret = NoRet
    /\ stop_requested = FALSE

\* ... over an empty output tree
AtRest ==
    /\ Parked
    /\ dirs = {}
    /\ data_files = <<>>
    /\ manifests = <<>>
    /\ h = NewHistory

\* the upstream's possible answers to one GET
Responses ==
    {[status |-> "200", rows |-> n, retry_after |-> NoHeader] : n \in 0..2}
    \cup {[status |-> "429", rows |-> 0, retry_after |-> ra] : ra \in {NoHeader, <<1>>, <<7>>}}
    \cup {[status |-> "fail", rows |-> 0, retry_after |-> NoHeader]}

\* one call of safe_request for http.retries in 1..MaxRetries, against every
\* sequence of upstream answers
RequestInit ==
    /\ cfg \in {Config("full", FullMode, Csv, "nested", cs, 0, r) :
                    cs \in ChunkSizes, r \in 1..MaxRetries}
    /\ AtRest
    /\ eval = NoEval
    /\ call \in {[NoCall EXCEPT !.resp = q, !.attempt = 1, !.backoff = 2,
                                 !.outcome = "running"] :
                     q \in [1..cfg.retries -> Responses]}

RequestNext == RequestStep

RequestSpec == RequestInit /\ [][RequestNext]_vars

\* ------------------------------------------------- safe_request, call after call
\* http_client.py:31: the next call of safe_request starts with fresh locals
\* (prev keeps the backoff the earlier call ended with); the upstream goes on
\* with the answers not yet given, then repeats the others
NextCall ==
    /\ call.outcome \in {"rows", "raise"}
    /\ call.prev = 0
    /\ call' = [NoCall EXCEPT
                  !.resp = SubSeq(call.resp, call.gets + 1, Len(call.resp))
                               \o SubSeq(call.resp, 1, call.gets),
                  !.attempt = 1, !.backoff = 2, !.outcome = "running",
                  !.prev = call.backoff]
    /\ UNCHANGED <<cfg, src, eval, run, pc, locals, req, ret, stop_requested, fs, h>>

\* two calls of safe_request with http.retries = BackoffRetries, against every
\* sequence of answers: a 200, a 429 with or without Retry-After, a failure
BackoffInit ==
    /\ cfg \in {Config("full", FullMode, Csv, "nested", cs, 0, BackoffRetries) :
                    cs \in ChunkSizes}
    /\ AtRest
    /\ eval = NoEval
    /\ call \in {[NoCall EXCEPT !.resp = q, !.attempt = 1, !.backoff = 2,
                                 !.outcome = "running"] :
                     q \in [1..cfg.retries ->
                              {r \in Responses : r.rows = 0 /\ r.retry_after # <<1>>}]}

BackoffNext ==
    \/ RequestStep
    \/ NextCall

BackoffSpec == BackoffInit /\ [][BackoffNext]_vars

\* ------------------------------------------------- main: the dispatch of a run
\* cli.py:268-269: the defaults of absent dates: date(2001, 1, 1), date.today()
DefaultStart == [kind |-> "date", y |-> 2001, m |-> 1, d |-> 1]
Today == [kind |-> "date", y |-> 2026, m |-> 11, d |-> 3]

\* cli.py:265-284: full mode goes to run_offset_mode at once; the other modes
\* parse both dates (a ValueError leaves main), exit with status 2 when the
\* start is after the end, and go to run_windowed_mode otherwise
MainDispatch ==
    /\ pc = "main"
    /\ pc' = IF cfg.mode_label = "full" THEN "off_init"
             ELSE LET ps == parse_date(cfg.start_date)
                      pe == parse_date(cfg.end_date)
                      start_d == IF ps.kind = "none" THEN DefaultStart ELSE ps
                      end_d == IF pe.kind = "none" THEN Today ELSE pe
                  IN IF ps.kind = "raise" \/ pe.kind = "raise" THEN "raised"
                     ELSE IF DateBefore(end_d, start_d) THEN "exit2"
                     ELSE "win_top"
    /\ UNCHANGED <<cfgvars, run, locals, req, ret, stop_requested, fs, h>>

\* the date options explored: absent, two dates, a day past the end of its
\* month, a text of another shape
DateOptions ==
    {NoDate,
     DateText("2020-01-10", 2020, 1, 10),
     DateText("2020-03-05", 2020, 3, 5),
     DateText("2020-02-31", 2020, 2, 31),
     BadText("2020/01/10")}

ModeLabels == {"full", "monthly", "weekly", "daily"}

\* a run of every mode with every pair of date options, over an empty tree
\* and a source without rows
DispatchInit ==
    /\ cfg \in {[Config(IF m = "full" THEN "full" ELSE "windowed",
                         [mode_label |-> m, preflight |-> FALSE], Csv, "nested",
                         cs, 0, 1)
                  EXCEPT !.start_date = sd, !.end_date = ed] :
                    m \in ModeLabels, sd \in DateOptions, ed \in DateOptions,
                    cs \in ChunkSizes}
    /\ src = [i \in {1} |-> 0]
    /\ call = NoCall
    /\ eval = NoEval
    /\ run = 1
    /\ pc = "main"
    /\ wi = 1
    /\ chunk_no = 0
    /\ offset = 0
    /\ wrote_any = FALSE
    /\ created_this_run = FALSE
    /\ data = 0
    /\ actual_path = NoPath
    /\ req = IdleReq
    /\ ret = NoRet
    /\ stop_requested = FALSE
    /\ dirs = {}
    /\ data_files = <<>>
    /\ manifests = <<>>
    /\ h = NewHistory

\* the dispatch, and run_offset_mode up to the outcome of its first request
DispatchNext ==
    \/ MainDispatch
    \/ OffsetInit
    \/ OffsetLoopTop
    \/ GetOk
    \/ OffsetFetchReturn

DispatchSpec == DispatchInit /\ [][DispatchNext]_vars

\* ------------------------------------------------- the resume inspector on its own
\* files a window directory may hold: chunks of the window as .parquet, .csv
\* and .csv.gz, a chunk of the next window, and a file that is no data file
InspectedFiles(c) ==
    LET p(w, n) == make_paths(c, c.mode_label, WindowsOf(c.mode_label)[w], n).data_path
    IN {[p(1, 1) EXCEPT !.suf = ".parquet"],
        [p(1, 2) EXCEPT !.suf = ".csv"],
        [p(1, 3) EXCEPT !.suf = ".csv.gz"],
        [p(2, 1) EXCEPT !.suf = ".parquet"],
        [p(1, 1) EXCEPT !.suf = ".txt"]}

InspectedManifests(c) ==
    {make_paths(c, c.mode_label, WindowsOf(c.mode_label)[1], 1).manifest_path}

\* a placeholder for content the inspector never reads
Opaque == [enc |-> "any"]

InspectInit ==
    /\ cfg \in {Config("windowed", Daily, f, l, cs, 0, 1) :
                    f \in Formats, l \in Layouts, cs \in ChunkSizes}
    /\ Parked
    /\ call = NoCall
    /\ dirs = ensure_dir(ensure_dir({}, BaseDir(1)), BaseDir(2))
    /\ \E fsub \in SUBSET InspectedFiles(cfg) : data_files = [f \in fsub |-> Opaque]
    /\ \E msub \in SUBSET InspectedManifests(cfg) : manifests = [f \in msub |-> Opaque]
    /\ h = NewHistory
    /\ eval \in {[NoEval EXCEPT !.fn = fn] :
                     fn \in {"resume_index_for_layout", "resume_index"}}

\* the inspector applied to the first window's directory
Inspect ==
    /\ eval.out = <<>>
    /\ LET p == make_paths(cfg, cfg.mode_label, windows[1], 1)
       IN eval' = [eval EXCEPT !.out =
                     IF eval.fn = "resume_index_for_layout"
                     THEN <<resume_index_for_layout(p.base_dir, windows[1], cfg.mode_label,
                                cfg.out_format, cfg.layout, "none")>>
                     ELSE <<resume_index_with(p.base_dir, p.data_path.pre,
                                cfg.out_format, "none")>>]
    /\ UNCHANGED <<cfg, src, call, run, pc, locals, req, ret, stop_requested, fs, h>>

InspectNext == Inspect

InspectSpec == InspectInit /\ [][InspectNext]_vars

\* ------------------------------------------------- functions on their own
\* runners.py:62, 144 and http_client.py:58: the parameters built for a request
BuildQuery ==
    /\ eval.fn \in {"soql_params_window", "soql_params", "probe_count_for_day"}
    /\ eval.out = <<>>
    /\ LET a == eval.arg[1]
       IN eval' = [eval EXCEPT !.out =
                     <<IF eval.fn = "soql_params_window"
                       THEN soql_params_window(a.offset, a.limit, a.s, a.e, a.select)
                       ELSE IF eval.fn = "soql_params"
                       THEN soql_params(a.offset, a.limit, a.start_date, a.end_date,
                                        a.select)
                       ELSE probe_params(a.s)>>]
    /\ UNCHANGED <<cfg, src, call, run, pc, locals, req, ret, stop_requested, fs, h>>

\* cli.py:276-284: the generator of the mode applied to (start_d, end_d)
Generate ==
    /\ eval.fn \in {"day_windows", "week_windows", "month_windows"}
    /\ eval.out = <<>>
    /\ LET start == eval.arg[1]
           end == eval.arg[2]
       IN eval' = [eval EXCEPT !.out =
                     <<IF eval.fn = "day_windows" THEN day_windows(start, end)
                       ELSE IF eval.fn = "week_windows" THEN week_windows(start, end)
                       ELSE month_windows(start, end)>>]
    /\ UNCHANGED <<cfg, src, call, run, pc, locals, req, ret, stop_requested, fs, h>>

\* a text as the sequence of its characters
Chars(name) ==
    CASE name = "raw" -> <<"r", "a", "w">>
      [] name = "raw_daily" -> <<"r", "a", "w", "_", "d", "a", "i", "l", "y">>
      [] name = "RAW_Daily" -> <<"R", "A", "W", "_", "D", "a", "i", "l", "y">>
      [] name = "daily_raw" -> <<"d", "a", "i", "l", "y", "_", "r", "a", "w">>
      [] name = "Monthly" -> <<"M", "o", "n", "t", "h", "l", "y">>
      [] name = "ly" -> <<"l", "y">>
      [] name = "daily" -> <<"d", "a", "i", "l", "y">>
      [] name = "weekly" -> <<"w", "e", "e", "k", "l", "y">>
      [] name = "monthly" -> <<"m", "o", "n", "t", "h", "l", "y">>
      [] name = "full" -> <<"f", "u", "l", "l">>

\* an inference that compares the root's name as it is written
infer_layout_case_sensitive(layout, root_name, mode) ==
    LET r == Chars(root_name)
        m == Chars(mode)
    IN IF layout # <<>> THEN layout[1]
       ELSE IF Len(r) >= Len(m) /\ SubSeq(r, Len(r) - Len(m) + 1, Len(r)) = m
       THEN "mode-flat" ELSE "nested"

\* cli.py:238-242: the layout of the run: the --layout option if given (a
\* one-element sequence), else inferred from the name of the output root
infer_layout(layout, root_name, mode) ==
    LET lower(c) == CASE c = "R" -> "r" [] c = "A" -> "a" [] c = "W" -> "w"
                      [] c = "D" -> "d" [] c = "M" -> "m" [] OTHER -> c
        r == [i \in DOMAIN Chars(root_name) |-> lower(Chars(root_name)[i])]
        m == Chars(mode)
        endswith == Len(r) >= Len(m) /\ SubSeq(r, Len(r) - Len(m) + 1, Len(r)) = m
    IN IF layout # <<>> THEN layout[1]
       ELSE IF endswith THEN "mode-flat" ELSE "nested"

\* cli.py:238-242 applied to one command line
InferLayout ==
    /\ eval.fn = "infer_layout"
    /\ eval.out = <<>>
    /\ LET a == eval.arg[1]
       IN eval' = [eval EXCEPT !.out = <<infer_layout(a.layout, a.root_name, a.mode)>>]
    /\ UNCHANGED <<cfg, src, call, run, pc, locals, req, ret, stop_requested, fs, h>>

\* io_utils.py:146-164: the file name of a planned path:
\* f"{base_name}{suffix}" with base_name = f"{prefix}_chunk_{chunk_no:04d}"
FileName(p) ==
    p.pre \o "_chunk_" \o (IF p.no < 10000 THEN Pad4(p.no) ELSE Str(p.no)) \o p.suf

\* io_utils.py:136-165: make_paths called on its own
PlanPaths ==
    /\ eval.fn = "make_paths"
    /\ eval.out = <<>>
    /\ LET a == eval.arg[1]
       IN eval' = [eval EXCEPT !.out = <<make_paths(a.cfg, a.mode_label, a.wid, a.n)>>]
    /\ UNCHANGED <<cfg, src, call, run, pc, locals, req, ret, stop_requested, fs, h>>

\* io_utils.py:51-81: write_frame called on its own, into an existing directory
WriteFrame ==
    /\ eval.fn = "write_frame"
    /\ eval.out = <<>>
    /\ LET a == eval.arg[1]
           path == write_frame_path(a.path, a.out_format, a.compression, a.engine)
           enc == write_frame_enc(a.path, a.out_format, a.compression, a.engine)
       IN /\ data_files' = (path :> Content(enc)) @@ data_files
          /\ eval' = [eval EXCEPT !.out = <<path>>]
    /\ UNCHANGED <<cfg, src, call, run, pc, locals, req, ret, stop_requested,
                   dirs, manifests, h>>

\* soql.py:15-28: parse_date called on its own
ParseDate ==
    /\ eval.fn = "parse_date"
    /\ eval.out = <<>>
    /\ eval' = [eval EXCEPT !.out = <<parse_date(eval.arg[1])>>]
    /\ UNCHANGED <<cfg, src, call, run, pc, locals, req, ret, stop_requested, fs, h>>

\* the first day of the calendar stretch explored: it spans the turn of the
\* year 2019/2020 and the end of February 2020
CalendarFrom == toordinal(2019, 12, 23)

\* one function applied to one argument: a window generator to every
\* start <= end of the stretch (the weekly and the monthly one also to the
\* year 2024); a query builder to the windows of one day, one
\* week, 29 and 31 days from every day of the stretch and to 2025-11-05, or to
\* every pair of date options; make_paths to a daily, a weekly and a monthly
\* window for every layout, format and codec; the layout inference to every
\* mode, --layout option and a set of root names; write_frame to the data path planned for a
\* chunk, for every format, codec and layout, with and without a parquet engine;
\* parse_date to an absent date, to texts of another shape and to the texts
\* dddd-dd-dd of four years, every month number 00..13 and day numbers 00..99
EvalInit ==
    /\ cfg \in {Config("windowed", Daily, Csv, "nested", cs, 0, 1) : cs \in ChunkSizes}
    /\ Parked
    /\ call = NoCall
    /\ manifests = <<>>
    /\ data_files = <<>>
    /\ \/ /\ LET Days == CalendarFrom..(CalendarFrom + MaxSpan)
             IN eval \in {[NoEval EXCEPT !.fn = fn, !.arg = <<s, e>>] :
                              fn \in {"day_windows", "week_windows", "month_windows"},
                              s \in Days \cup {toordinal(2024, 1, 1)},
                              e \in Days \cup {toordinal(2024, 12, 31)}}
          /\ eval.arg[1] <= eval.arg[2]
          /\ (eval.arg[1] = toordinal(2024, 1, 1)) = (eval.arg[2] = toordinal(2024, 12, 31))
          /\ eval.fn = "day_windows" => eval.arg[1] # toordinal(2024, 1, 1)
          /\ dirs = {}
       \/ /\ eval \in {[NoEval EXCEPT !.fn = "write_frame", !.arg =
                           <<[path |-> make_paths([cfg EXCEPT !.out_format = f,
                                                    !.compression = k, !.layout = l],
                                                  "daily", DailyWindows[1], n).data_path,
                              out_format |-> f, compression |-> k, engine |-> g]>>] :
                           f \in {"csv", "parquet"}, k \in {"none", "gzip", "snappy"},
                           l \in Layouts,
                           n \in 1..2, g \in BOOLEAN}
          /\ dirs = ensure_dir({}, eval.arg[1].path.dir)
       \/ /\ LET Days == (CalendarFrom..(CalendarFrom + MaxSpan))
                            \cup {toordinal(2025, 11, 5)}
             IN eval \in {[NoEval EXCEPT !.fn = fn, !.arg =
                              <<[offset |-> o, limit |-> cs, s |-> s, e |-> s + len,
                                 select |-> sel]>>] :
                              fn \in {"soql_params_window", "probe_count_for_day"},
                              o \in {0, 2, 50000}, cs \in ChunkSizes, s \in Days,
                              len \in {0, 6, 28, 30},
                              sel \in {NoSelect, <<"id,date">>}}
          /\ eval.fn = "probe_count_for_day"
                => (eval.arg[1].e = eval.arg[1].s /\ eval.arg[1].offset = 0
                    /\ eval.arg[1].select = NoSelect)
          /\ dirs = {}
       \/ /\ eval \in {[NoEval EXCEPT !.fn = "make_paths", !.arg =
                           <<[cfg |-> [cfg EXCEPT !.out_format = f, !.compression = k,
                                                  !.layout = l],
                              mode_label |-> w[1], wid |-> w[2], n |-> n]>>] :
                           f \in {"csv", "parquet"}, k \in {"none", "gzip", "snappy"},
                           l \in Layouts, n \in {1, 12, 345, 10000},
                           w \in {<<"daily", <<"2024", "01", "02">> >>,
                                  <<"weekly", <<"2024", "W05">> >>,
                                  <<"monthly", <<"2024", "01">> >>}}
          /\ dirs = {}
       \/ /\ eval \in {[NoEval EXCEPT !.fn = "infer_layout", !.arg =
                           <<[layout |-> l, root_name |-> r, mode |-> m]>>] :
                           l \in {<<>>} \cup {<<x>> : x \in Layouts},
                           r \in {"raw", "raw_daily", "RAW_Daily", "daily_raw",
                                  "Monthly", "ly", "daily"},
                           m \in ModeLabels}
          /\ dirs = {}
       \/ /\ eval \in {[NoEval EXCEPT !.fn = "soql_params", !.arg =
                           <<[offset |-> o, limit |-> cs, start_date |-> sd,
                              end_date |-> ed, select |-> sel]>>] :
                           o \in {0, 2, 50000}, cs \in ChunkSizes, sd \in DateOptions,
                           ed \in DateOptions, sel \in {NoSelect, <<"id,date">>}}
          /\ dirs = {}
       \/ /\ eval \in {[NoEval EXCEPT !.fn = "parse_date", !.arg = <<t>>] :
                           t \in {NoDate, BadText("2020/04/30"), BadText("20-02-31"),
                                  BadText("2020-4-30")}
                              \cup {DateText(Pad4(y) \o "-" \o Pad2(m) \o "-" \o Pad2(d),
                                              y, m, d) :
                                        y \in {1900, 2019, 2020, 2024}, m \in 0..13,
                                        d \in (0..32) \cup {99}}}
          /\ dirs = {}
    /\ h = NewHistory

EvalNext ==
    \/ Generate
    \/ BuildQuery
    \/ PlanPaths
    \/ InferLayout
    \/ WriteFrame
    \/ ParseDate

EvalSpec == EvalInit /\ [][EvalNext]_vars

\* ------------------------------------------------------------ properties
\* the paths of chunk n of window w under the run's configuration
PathsOf(w, n) ==
    IF cfg.runMode = "full" THEN offset_paths(cfg, n)
    ELSE make_paths(cfg, cfg.mode_label, windows[w], n)

\* the path write_frame writes chunk n of window w to
WrittenPath(w, n) ==
    write_frame_path(PathsOf(w, n).data_path, cfg.out_format, "none", cfg.engine)

Streams == IF cfg.runMode = "full" THEN {1} ELSE 1..NWindows
ChunkNos == 1..(MaxRows + 2)

\* at the start of the current run chunk n of window w had its data file
HadData(w, n) == WrittenPath(w, n) \in h.data0 \/ PathsOf(w, n).data_path \in h.data0
\* ... and its manifest
HadManifest(w, n) == PathsOf(w, n).manifest_path \in h.manifests0

FetchedChunk(w, n) == \E f \in h.fetches : f.w = w /\ f.no = n

\* C1: resume idempotence. In a second run with the same configuration, no
\* fetch is issued for, and neither the data file nor the manifest is rewritten
\* for, a chunk whose data file and manifest both existed when the run
\* started; and the run leaves the set of chunk files it found.
C1_ResumeIdempotence ==
    run > 1 =>
        \A w \in Streams : \A n \in ChunkNos :
            (HadData(w, n) /\ HadManifest(w, n)) =>
                /\ ~FetchedChunk(w, n)
                /\ WrittenPath(w, n) \notin h.writes
                /\ PathsOf(w, n).manifest_path \notin h.writes

\* C1, the divergence: the chunk refetched and rewritten was written through
\* the CSV fallback of a parquet configuration, in windowed mode
C1_OnlyFallbackWindowed ==
    ~C1_ResumeIdempotence =>
        cfg.runMode = "windowed" /\ cfg.out_format = "parquet" /\ ~cfg.engine

\* C2: partial-write recovery. A chunk whose data file was on disk without its
\* manifest when the run started is not treated as done: the run neither
\* resumes its window beyond it nor skips it, and when it fetches in that
\* window it fetches chunk n at offset (n-1)*chunk_size.
C2_PartialWriteRecovery ==
    \A w \in Streams : \A n \in ChunkNos :
        (HadData(w, n) /\ ~HadManifest(w, n)) =>
            /\ \A s \in h.started : s.w = w => s.no <= n
            /\ [w |-> w, no |-> n] \notin h.skipped
            /\ \A f \in h.fetches :
                   (f.w = w /\ f.no >= n) =>
                       [w |-> w, no |-> n, off |-> (n - 1) * cfg.chunk_size] \in h.fetches

\* C3: safe_request returns an empty list only for a successful response with
\* zero rows; it never returns one after attempts that were all answered 429
\* or failed.
C3_EmptyOnlyOnSuccess ==
    (ret.kind = "rows" /\ ret.rows = 0) => ret.via = "200"

\* C4: lazy directories. After a window of run_windowed_mode whose first fetch
\* returned an empty list, the directories and files are those that existed
\* when the window started.
C4_LazyDirectories ==
    (cfg.runMode = "windowed" /\ h.firstEmpty) =>
        dirs = h.winDirs /\ AllFiles = h.winFiles

\* a window's first fetch has returned an empty list and the window is over
C4_Witness ==
    /\ cfg.runMode = "windowed"
    /\ h.firstEmpty
    /\ pc = "win_top"
    /\ wi = 2
    /\ BaseDir(1) \notin dirs
    /\ ret.via = "200"

\* C5: empty-directory pruning. Whenever run_windowed_mode is between windows
\* or has ended (normally or by an exception), a base directory this
\* invocation created and that holds no file no longer exists.
C5_EmptyDirPruned ==
    (cfg.runMode = "windowed" /\ pc \in {"win_top", "done", "raised"}) =>
        \A d \in h.createdBase :
            (\A f \in AllFiles : f.dir # d) => d \notin dirs

\* chunk n of window w is on disk with its manifest
Stored(w, n) ==
    /\ WrittenPath(w, n) \in DOMAIN data_files
    /\ PathsOf(w, n).manifest_path \in DOMAIN manifests

\* C6: cooperative cancellation. After the flag is set at most one further
\* safe_request call is started; once a poll has seen the flag the run is
\* over (no request, no later window); and a run that ended without an
\* exception has written every chunk whose fetch returned rows, data file and
\* manifest.
C6_StopAfterCurrentChunk ==
    /\ h.callsAfterStop <= 1
    /\ h.stopAt # "none" => (pc = "done" /\ ~InCall /\ \A s \in h.started : s.w <= wi)
    /\ pc = "done" => \A g \in h.gotRows : Stored(g.w, g.no)

\* the flag was set while a fetch was in flight; the fetch returned rows, the
\* chunk was written, and the next poll ended the run
C6_Witness ==
    /\ h.stopAt = "loop"
    /\ h.callsAfterStop = 1
    /\ h.gotRows # {}
    /\ \A g \in h.gotRows : Stored(g.w, g.no)
    /\ pc = "done"

\* C7: a window that is about to start with the flag set gets no fetch and no
\* probe, no directory is created for it, and no later window is processed.
C7_FlagSetBeforeWindow ==
    \A w \in h.flagAtTop :
        /\ pc = "done"
        /\ wi = w
        /\ \A f \in h.fetches : f.w < w
        /\ \A q \in h.probes : q < w
        /\ \A s \in h.started : s.w < w
        /\ dirs = h.stopDirs

\* the second window was about to start with the flag set, after the first
\* one had been downloaded
C7_Witness ==
    /\ 2 \in h.flagAtTop
    /\ h.stopAt = "window"
    /\ h.writes # {}
    /\ src[2] > 0
    /\ pc = "done"

\* C8: window-fatal errors. After safe_request has raised for a window,
\* run_windowed_mode has gone on to the next window; run_offset_mode has
\* ended. The exception does not leave the orchestrator, and every file
\* written by the run is still on disk, in a directory that exists.
C8_WindowFatalErrors ==
    /\ \A w \in h.fetchErrors :
          IF cfg.runMode = "windowed" THEN wi > w ELSE pc = "done"
    /\ pc = "raised" => ret.kind # "raise"
    /\ h.fetchErrors # {} => (h.writes \subseteq AllFiles
                              /\ \A f \in h.writes : f.dir \in dirs)

\* the fetch of the second chunk of the first window raised; the first chunk
\* is on disk and the second window has been fetched
C8_Witness ==
    /\ cfg.runMode = "windowed"
    /\ 1 \in h.fetchErrors
    /\ Stored(1, 1)
    /\ WrittenPath(1, 1) \in h.writes
    /\ FetchedChunk(2, 1)

\* C9: last-page detection. Once a chunk of fewer than chunk_size rows has
\* been written, its window (or the full-mode run) is over: no fetch at the
\* next offset, no polite sleep.
C9_LastPage ==
    \A s \in h.short :
        /\ Stored(s.w, s.no)
        /\ \A f \in h.fetches : f.w = s.w => f.no <= s.no
        /\ s \notin h.sleptAfter
        /\ IF cfg.runMode = "windowed" THEN wi > s.w ELSE pc = "done"

\* a full page, then a short page, were written in the same window
C9_Witness ==
    /\ [w |-> 1, no |-> 2] \in h.short
    /\ [w |-> 1, no |-> 1] \in h.sleptAfter
    /\ data = 1
    /\ Terminated

\* C10: retry ceiling. One safe_request call sends at most http.retries GET
\* requests, and every response that is a 429 or a failure has used up one
\* attempt.
C10_RetryCeiling ==
    /\ req.gets <= cfg.retries
    /\ ret.gets <= cfg.retries
    /\ InCall => (req.gets = req.attempt - 1 /\ req.attempt <= cfg.retries)

\* a call has used its whole budget on 429 responses and failures
C10_Witness ==
    /\ cfg.retries = MaxRetries
    /\ ret.gets = cfg.retries
    /\ ret.via \in {"error", "exhausted"}

\* the answers the call has consumed
Consumed == SubSeq(call.resp, 1, call.gets)
CallOver == call.outcome \in {"rows", "raise"}

\* C11: retry exhaustion. A call whose http.retries attempts all failed with a
\* transient error raises after exactly http.retries GETs and retries - 1
\* sleeps.
C11_RetryExhaustion ==
    (CallOver /\ \A i \in 1..Len(call.resp) : call.resp[i].status = "fail") =>
        /\ call.outcome = "raise"
        /\ call.gets = cfg.retries
        /\ call.attempt = cfg.retries
        /\ Len(call.sleeps) = cfg.retries - 1

\* every attempt of a call with the largest budget has failed
C11_Witness ==
    /\ cfg.retries = MaxRetries
    /\ call.outcome = "raise"
    /\ \A i \in 1..Len(call.resp) : call.resp[i].status = "fail"
    /\ Len(call.sleeps) = MaxRetries - 1

\* the backoff in force at the i-th retry of a call
BackoffAt(i) == Min(2 ^ i, 60)

DataFilesAtStart(w) ==
    LET p == PathsOf(w, 1)
    IN {f \in h.data0 :
          /\ f.dir = p.base_dir
          /\ f.pre = p.data_path.pre
          /\ f.suf \in (IF cfg.runMode = "full" THEN {".parquet", ".csv", ".csv.gz"}
                        ELSE {p.data_path.suf})}

\* the chunk numbers of window w written by the current run
WrittenNos(w) ==
    LET p == WrittenPath(w, 1)
    IN {f.no : f \in {g \in h.writes : g.dir = p.dir /\ g.pre = p.pre /\ g.suf = p.suf}}

WindowDataFiles ==
    LET p == make_paths(cfg, cfg.mode_label, windows[1], 1)
    IN {f \in AllFiles :
          /\ f.dir = p.base_dir
          /\ f.pre = p.data_path.pre
          /\ f.suf \in (IF cfg.out_format = "parquet"
                        THEN {".parquet", ".csv", ".csv.gz"}
                        ELSE {".csv", ".csv.gz"})}

\* C14: the resume inspector returns the number of data files of the window
\* in the directory, manifests and other files left out, and for a parquet
\* configuration the chunks stored as .csv or .csv.gz included.
C14_InspectorCount ==
    eval.out # <<>> => eval.out[1] = Cardinality(WindowDataFiles)

\* C14, the part that holds: the count is that of the window's files with a
\* candidate suffix of the format; manifests and other files are never counted
C14_CountsCandidateSuffixes ==
    eval.out # <<>> =>
        eval.out[1] = Cardinality({f \in WindowDataFiles :
                          f.suf \in suffix_candidates(cfg.out_format, "none")})

\* C15: every manifest on disk records as data_file the path write_frame
\* wrote its chunk to, with the SHA-256 of that file, also after a fallback
\* from parquet to CSV and in both orchestrators.
C15_ManifestRecordsActualPath ==
    \A w \in Streams : \A n \in ChunkNos :
        LET mp == PathsOf(w, n).manifest_path
        IN mp \in DOMAIN manifests =>
              /\ manifests[mp].data_file = WrittenPath(w, n)
              /\ manifests[mp].data_file \in DOMAIN data_files
              /\ manifests[mp].sha256

\* C15, the divergence: the manifests that record another path, or no hash,
\* are those of run_offset_mode after a fallback to CSV
C15_OnlyFullModeFallback ==
    ~C15_ManifestRecordsActualPath =>
        cfg.runMode = "full" /\ cfg.out_format = "parquet" /\ ~cfg.engine

\* C16: run_offset_mode creates its base directory only before its first
\* write: as long as no fetch of the run has returned rows (first fetch empty
\* or failed, cancellation before any fetch) the directories are those the
\* run found.
C16_FullModeLazyDirectory ==
    (cfg.runMode = "full" /\ pc # "off_init" /\ h.gotRows = {}) => dirs = h.dirs0

\* C17: preflight. A daily window whose count probe reported zero rows or
\* failed (an exception, exhausted retries, an unreadable body) is skipped:
\* no row fetch and no resume inspection for it, no directory created for it,
\* and the for loop has gone on to the next window without an exception.
C17_PreflightSkip ==
    \A z \in h.probeZero :
        /\ cfg.mode_label = "daily" /\ cfg.preflight
        /\ \A f \in h.fetches : f.w # z.w
        /\ \A s \in h.started : s.w # z.w
        /\ wi > z.w
        /\ pc = "raised" => [w |-> wi, no |-> chunk_no] \in h.gotRows
        /\ BaseDir(z.w) \in dirs =>
              \/ BaseDir(z.w) \in h.dirs0
              \/ \E f \in h.fetches : BaseDir(f.w) = BaseDir(z.w)

\* the probe of the first window failed although the window has rows; the
\* window was skipped and the second window was fetched
C17_Witness ==
    /\ \E z \in h.probeZero : z.w = 1 /\ z.via = "error"
    /\ src[1] > 0
    /\ BaseDir(1) \notin dirs
    /\ FetchedChunk(2, 1)
    /\ Stored(2, 1)

\* a probe answered by a row the count cannot be read from; window skipped
C17_WitnessMalformed ==
    /\ \E z \in h.probeZero : z.w = 1 /\ z.via = "200-malformed"
    /\ src[1] > 0
    /\ wi = 2

C18_WitnessResumed ==
    /\ cfg.runMode = "full"
    /\ cfg.max_chunks >= 1
    /\ run = 2
    /\ src[1] > cfg.max_chunks * cfg.chunk_size
    /\ h.fetches = {}
    /\ h.stopAt = "none"
    /\ pc = "done"

\* the current run has written chunk n of window w, data file and manifest
CompletedThisRun(w, n) ==
    /\ WrittenPath(w, n) \in h.writes
    /\ PathsOf(w, n).manifest_path \in h.writes

\* C19: polite delay. A chunk written by the run and followed, in the same
\* run, by the write of another chunk (of the same or of a later window) was
\* followed by one sleep of http.sleep seconds; and a poll that saw the flag
\* after that sleep ended the run before the next fetch.
C19_PoliteDelay ==
    /\ \A w1 \in Streams, w2 \in Streams : \A n1 \in ChunkNos, n2 \in ChunkNos :
          (/\ CompletedThisRun(w1, n1)
           /\ CompletedThisRun(w2, n2)
           /\ (w1 < w2 \/ (w1 = w2 /\ n1 < n2))) =>
               [w |-> w1, no |-> n1] \in h.sleptAfter
    /\ h.stopAt # "none" => (pc = "done" /\ req = IdleReq)

\* C19, the part that holds: two chunks written one after the other in the
\* same window (or in the full-mode run) are separated by the sleep
C19_WithinOneWindow ==
    \A w \in Streams : \A n1 \in ChunkNos, n2 \in ChunkNos :
        (CompletedThisRun(w, n1) /\ CompletedThisRun(w, n2) /\ n1 < n2) =>
            [w |-> w, no |-> n1] \in h.sleptAfter

\* the run's dates are a configuration error: a text that is no date, or a
\* start after the end
ConfigError ==
    \/ cfg.start_date.shape = "other"
    \/ cfg.end_date.shape = "other"
    \/ /\ cfg.start_date.shape = "ymd"
       /\ cfg.end_date.shape = "ymd"
       /\ DateBefore(cfg.end_date, cfg.start_date)

\* nothing has been requested and nothing created
NothingDone ==
    /\ h.fetches = {}
    /\ h.probes = {}
    /\ req = IdleReq
    /\ dirs = {}
    /\ AllFiles = {}

\* C20: configuration errors fail fast. In every mode a run whose start date
\* is after its end date, or one of whose dates is malformed, issues no HTTP
\* request and creates no file or directory.
C20_ConfigErrorsFailFast ==
    ConfigError => (NothingDone /\ pc \notin {"win_top", "fetch", "done"})

\* C20, the part that holds: the modes other than full reject such a run
\* before run_windowed_mode is entered
C20_WindowedModesFailFast ==
    (ConfigError /\ cfg.mode_label # "full") =>
        (NothingDone /\ pc \in {"main", "exit2", "raised"})


\* the windows a generator returned for (start, end)
Generated == eval.out[1]
CalendarDone ==
    /\ eval.fn \in {"day_windows", "week_windows", "month_windows"}
    /\ eval.out # <<>>

\* ws is ordered, without gap or overlap, and runs from the day a to the day b
Covers(ws, a, b) ==
    /\ Len(ws) >= 1
    /\ ws[1].s = a
    /\ ws[Len(ws)].e = b
    /\ \A i \in 1..Len(ws) : ws[i].s <= ws[i].e
    /\ \A i \in 1..(Len(ws) - 1) : ws[i + 1].s = ws[i].e + 1

\* C21: for every start <= end the windows of the daily, weekly and monthly
\* generators are ordered, disjoint and contiguous, the first starts at start,
\* the last ends at end, and start = end yields exactly one window
C21_WindowCoverage ==
    CalendarDone =>
        /\ Covers(Generated, eval.arg[1], eval.arg[2])
        /\ (eval.arg[1] = eval.arg[2] => Len(Generated) = 1)

\* the daily and the monthly generator do cover [start, end] exactly
C21_DailyMonthlyCoverage ==
    (CalendarDone /\ eval.fn # "week_windows") =>
        /\ Covers(Generated, eval.arg[1], eval.arg[2])
        /\ (eval.arg[1] = eval.arg[2] => Len(Generated) = 1)

\* the weekly generator covers the span from the Monday of start's week
C21_WeeklyFromMonday ==
    (CalendarDone /\ eval.fn = "week_windows") =>
        /\ Covers(Generated, eval.arg[1] - weekday(eval.arg[1]), eval.arg[2])
        /\ (eval.arg[1] = eval.arg[2] => Len(Generated) = 1)

\* C22: a weekly window's identifier is YYYY-Www of the ISO year and the ISO
\* week number of the week it covers
C22_IsoWeekIdentifier ==
    (CalendarDone /\ eval.fn = "week_windows") =>
        \A i \in 1..Len(Generated) :
            LET iso == isocalendar(Generated[i].s)
            IN Generated[i].wid = Pad4(iso.year) \o "-W" \o Pad2(iso.week)

\* the identifier carries the ISO week number, with the calendar year of the
\* week's Monday
C22_WeekOfMondaysYear ==
    (CalendarDone /\ eval.fn = "week_windows") =>
        \A i \in 1..Len(Generated) :
            LET w == Generated[i]
            IN /\ weekday(w.s) = 0
               /\ w.wid = Pad4(fromordinal(w.s).y) \o "-W"
                              \o Pad2(isocalendar(w.s).week)
               /\ (fromordinal(w.s).y = isocalendar(w.s).year
                    => w.wid = Pad4(isocalendar(w.s).year) \o "-W"
                                   \o Pad2(isocalendar(w.s).week))

\* write_frame was called for the parquet format with no engine importable
FallbackCall ==
    /\ eval.fn = "write_frame"
    /\ eval.arg[1].out_format = "parquet"
    /\ ~eval.arg[1].engine

\* C23 as stated: without a parquet engine write_frame writes a CSV file at
\* the planned base name and returns its path, whose extension is .csv; the
\* file exists
C23_FallbackExtensionCsv ==
    (FallbackCall /\ eval.out # <<>>) =>
        /\ eval.out[1] = [eval.arg[1].path EXCEPT !.suf = ".csv"]
        /\ eval.out[1] \in DOMAIN data_files
        /\ data_files[eval.out[1]].enc = "csv"

\* C23: without a parquet engine write_frame writes CSV at the planned base
\* name and returns the path of the file written, which exists: its extension
\* is .csv, or .csv.gz (gzip-compressed CSV) when the compression is gzip; the
\* call never raises because of the missing engine
C23_ParquetFallback ==
    /\ (FallbackCall /\ eval.out # <<>>) =>
        LET gz == eval.arg[1].compression = "gzip"
        IN /\ eval.out[1] = [eval.arg[1].path EXCEPT
                                !.suf = IF gz THEN ".csv.gz" ELSE ".csv"]
           /\ DOMAIN data_files = {eval.out[1]}
           /\ data_files[eval.out[1]].enc = IF gz THEN "csv+gzip" ELSE "csv"
    /\ (FallbackCall /\ eval.out = <<>>) => ENABLED WriteFrame

\* a fallback call with gzip compression has returned
C23_Witness ==
    /\ FallbackCall
    /\ eval.arg[1].compression = "gzip"
    /\ eval.out # <<>>
    /\ eval.out[1].suf = ".csv.gz"
    /\ eval.out[1] \in DOMAIN data_files

\* C24: backoff arithmetic. Within one call the backoff starts at 2, has
\* doubled after every 429 (with or without Retry-After) and every transient
\* failure that was slept on, and never exceeds 60; every sleep not governed
\* by Retry-After lasts the backoff then in force; a new call starts at 2
\* whatever the earlier call ended with.
C24_BackoffArithmetic ==
    call.outcome # "none" =>
        /\ call.backoff = BackoffAt(Len(call.sleeps) + 1)
        /\ call.backoff \in 2..60
        /\ (call.gets = 0 => call.backoff = 2)
        /\ \A i \in 1..Len(call.sleeps) :
               /\ call.resp[i].status \in {"429", "fail"}
               /\ (call.resp[i].retry_after = NoHeader
                     => call.sleeps[i] = BackoffAt(i))

\* the second call has slept for 2 seconds on its first failure, after a first
\* call that ended with the backoff at its cap
C24_Witness ==
    /\ call.prev = 60
    /\ call.sleeps = <<2>>
    /\ call.backoff = 4

\* a call has slept for 60 seconds where an uncapped doubling gives 64, and
\* its 429 with Retry-After doubled the backoff too
C24_WitnessCap ==
    /\ Len(call.sleeps) = 6
    /\ call.sleeps[6] = 60
    /\ call.resp[1].retry_after = <<7>>
    /\ call.sleeps[1] = 7
    /\ call.sleeps[2] = 4

\* the half-open filter of the days a..b, written out
HalfOpen(a, b) ==
    LET ta == fromordinal(a)
        tb == fromordinal(b + 1)
    IN "date >= '" \o Pad4(ta.y) \o "-" \o Pad2(ta.m) \o "-" \o Pad2(ta.d)
         \o "T00:00:00.000' AND date < '"
         \o Pad4(tb.y) \o "-" \o Pad2(tb.m) \o "-" \o Pad2(tb.d) \o "T00:00:00.000'"

\* C25: for every window (s, e) soql_params_window emits the half-open filter
\* date >= 's T00:00:00.000' AND date < '(e + 1 day) T00:00:00.000' with no
\* timezone suffix, probe_count_for_day uses the same bounds for its day, and
\* the window (2025-11-05, 2025-11-05) gives 2025-11-05T00:00:00.000 and
\* 2025-11-06T00:00:00.000
C25_WindowQuery ==
    (eval.fn \in {"soql_params_window", "probe_count_for_day"} /\ eval.out # <<>>) =>
        LET a == eval.arg[1]
            where == eval.out[1]["$where"]
        IN /\ where = HalfOpen(a.s, a.e)
           /\ (a.s = toordinal(2025, 11, 5) /\ a.e = a.s) =>
                where = "date >= '2025-11-05T00:00:00.000' AND date < '2025-11-06T00:00:00.000'"
           /\ (a.s = toordinal(2020, 2, 1) /\ a.e = toordinal(2020, 2, 29)) =>
                where = "date >= '2020-02-01T00:00:00.000' AND date < '2020-03-01T00:00:00.000'"

\* the filter of the day 2025-11-05 was built for a window query
C25_Witness ==
    /\ eval.fn = "soql_params_window"
    /\ eval.out # <<>>
    /\ eval.arg[1].s = toordinal(2025, 11, 5)
    /\ eval.arg[1].e = eval.arg[1].s
    /\ eval.out[1]["$where"]
         = "date >= '2025-11-05T00:00:00.000' AND date < '2025-11-06T00:00:00.000'"

\* the probe of the last day of 2019 was built
C25_WitnessProbe ==
    /\ eval.fn = "probe_count_for_day"
    /\ eval.out # <<>>
    /\ eval.out[1]["$where"]
         = "date >= '2019-12-31T00:00:00.000' AND date < '2020-01-01T00:00:00.000'"

\* the text of the first instant of the day t (a date option)
Instant(t, plus) ==
    LET u == fromordinal(toordinal(t.y, t.m, t.d) + plus)
    IN Pad4(u.y) \o "-" \o Pad2(u.m) \o "-" \o Pad2(u.d) \o "T00:00:00.000"

\* C26: soql_params emits the filter [start 00:00:00.000, end + 1 day
\* 00:00:00.000) when both bounds are given, only date >= start when only the
\* start is given, only date < end + 1 day when only the end is given, and no
\* $where at all when neither is given (bounds that are calendar dates)
C26_OffsetQuery ==
    (eval.fn = "soql_params" /\ eval.out # <<>>) =>
        LET a == eval.arg[1]
            params == eval.out[1]
            has_s == a.start_date # NoDate
            has_e == a.end_date # NoDate
            Where(text) == "$where" \in DOMAIN params /\ params["$where"] = text
        IN IF strptime_ok(a.start_date) /\ strptime_ok(a.end_date)
           THEN /\ "raise" \notin DOMAIN params
                /\ (has_s /\ has_e) =>
                     Where("date >= '" \o Instant(a.start_date, 0)
                              \o "' AND date < '" \o Instant(a.end_date, 1) \o "'")
                /\ (has_s /\ ~has_e) =>
                     Where("date >= '" \o Instant(a.start_date, 0) \o "'")
                /\ (~has_s /\ has_e) =>
                     Where("date < '" \o Instant(a.end_date, 1) \o "'")
                /\ (~has_s /\ ~has_e) => "$where" \notin DOMAIN params
           ELSE DOMAIN params = {"raise"}

\* the filter of the range 2020-01-10 .. 2020-03-05 was built
C26_Witness ==
    /\ eval.fn = "soql_params"
    /\ eval.out # <<>>
    /\ eval.arg[1].start_date.text = "2020-01-10"
    /\ eval.arg[1].end_date.text = "2020-03-05"
    /\ eval.out[1]["$where"]
         = "date >= '2020-01-10T00:00:00.000' AND date < '2020-03-06T00:00:00.000'"

\* parameters without filter were built for a call without bounds
C26_WitnessNoFilter ==
    /\ eval.fn = "soql_params"
    /\ eval.out # <<>>
    /\ eval.arg[1].start_date = NoDate
    /\ eval.arg[1].end_date = NoDate
    /\ DOMAIN eval.out[1] = {"$limit", "$offset", "$order"}

\* C27: every row-fetching request of either orchestrator carries
\* $order = 'date desc', $limit = chunk_size and the $offset of its chunk,
\* whatever the window, the offset and the projection, on a first attempt, on
\* a retry and in a resumed run
C27_OrderedPaging ==
    pc = "fetch" =>
        /\ req.kind = "fetch"
        /\ {"$order", "$limit", "$offset"} \subseteq DOMAIN req.params
        /\ req.params["$order"] = "date desc"
        /\ req.params["$limit"] = Str(cfg.chunk_size)
        /\ req.params["$offset"] = Str(offset)
        /\ offset = (chunk_no - 1) * cfg.chunk_size
        /\ (cfg.select # NoSelect) =>
             ("$select" \in DOMAIN req.params /\ req.params["$select"] = cfg.select[1])

\* the second attempt of the fetch of chunk 2 in a resumed windowed run with a
\* projection
C27_Witness ==
    /\ pc = "fetch"
    /\ cfg.runMode = "windowed"
    /\ run = 2
    /\ req.attempt = 2
    /\ chunk_no = 2
    /\ cfg.select # NoSelect
    /\ req.params["$offset"] = "2"
    /\ req.params["$order"] = "date desc"

\* a retry of a later page in full mode
C27_WitnessFull ==
    /\ pc = "fetch"
    /\ cfg.runMode = "full"
    /\ req.attempt = 2
    /\ req.params["$offset"] = "2"
    /\ "$where" \notin DOMAIN req.params

\* the window lists handed to run_windowed_mode carry the identifiers the
\* generators give them
WindowListsGenerated ==
    cfg.runMode = "windowed" =>
        /\ Len(WindowSpans(cfg.mode_label)) = NWindows
        /\ \A i \in 1..NWindows : WindowSpans(cfg.mode_label)[i].wid = WidStr(windows[i])

\* C28: make_paths yields base_dir = root/mode/window_id (nested), root/mode
\* (mode-flat), root (flat) or root/mode/ followed by the parts of the window
\* identifier (ymd); the data file is <prefix>_chunk_<chunk_no, zero-padded to
\* 4 digits>.<ext> with prefix window_id (mode_window_id for flat) and ext
\* csv, csv.gz or parquet; the manifest has the same base name with
\* .manifest.json; nothing is created on disk
C28_PathPlanner ==
    (eval.fn = "make_paths" /\ eval.out # <<>>) =>
        LET a == eval.arg[1]
            p == eval.out[1]
            root == a.cfg.out_root
            wid == WidStr(a.wid)
            base == (IF a.cfg.layout = "flat" THEN a.mode_label \o "_" \o wid ELSE wid)
                        \o "_chunk_" \o (IF a.n < 10 THEN "000" \o Str(a.n)
                                         ELSE IF a.n < 100 THEN "00" \o Str(a.n)
                                         ELSE IF a.n < 1000 THEN "0" \o Str(a.n)
                                         ELSE Str(a.n))
            ext == IF a.cfg.out_format = "parquet" THEN "parquet"
                   ELSE IF a.cfg.compression = "gzip" THEN "csv.gz" ELSE "csv"
        IN /\ p.base_dir = (IF a.cfg.layout = "nested" THEN root \o <<a.mode_label, wid>>
                            ELSE IF a.cfg.layout = "mode-flat" THEN root \o <<a.mode_label>>
                            ELSE IF a.cfg.layout = "flat" THEN root
                            ELSE root \o <<a.mode_label>> \o a.wid)
           /\ p.data_path.dir = p.base_dir
           /\ p.manifest_path.dir = p.base_dir
           /\ FileName(p.data_path) = base \o "." \o ext
           /\ FileName(p.manifest_path) = base \o ".manifest.json"
           /\ dirs = {}
           /\ data_files = <<>>
           /\ manifests = <<>>

\* the gzip CSV of chunk 12 of a daily window was planned in the flat layout
C28_Witness ==
    /\ eval.fn = "make_paths"
    /\ eval.out # <<>>
    /\ eval.arg[1].cfg.layout = "flat"
    /\ eval.out[1].base_dir = <<"raw">>
    /\ FileName(eval.out[1].data_path) = "daily_2024-01-02_chunk_0012.csv.gz"
    /\ FileName(eval.out[1].manifest_path) = "daily_2024-01-02_chunk_0012.manifest.json"

\* a weekly window was planned in the ymd layout
C28_WitnessWeeklyYmd ==
    /\ eval.fn = "make_paths"
    /\ eval.out # <<>>
    /\ eval.out[1].base_dir = <<"raw", "weekly", "2024", "W05">>
    /\ FileName(eval.out[1].data_path) = "2024-W05_chunk_0001.parquet"

C29_WitnessExplicit ==
    /\ eval.fn = "infer_layout"
    /\ eval.arg[1] = [layout |-> <<"nested">>, root_name |-> "raw_daily", mode |-> "daily"]
    /\ eval.out = <<"nested">>

\* the codec an encoding was written with
CodecOf(enc) ==
    IF enc = "csv+gzip" \/ enc = "parquet+gzip" THEN "gzip" ELSE "none or default"

\* C30: under a configuration with a compression codec every chunk written is
\* encoded with that codec, the extension make_paths planned matches the
\* encoding written, and the manifest's compression field names the codec
C30_CompressionHonoured ==
    cfg.compression # "none" =>
        /\ \A f \in DOMAIN data_files :
               /\ CodecOf(data_files[f].enc) = cfg.compression
               /\ f.suf = data_suffix(cfg.out_format, cfg.compression)
        /\ \A m \in DOMAIN manifests : manifests[m].compression = cfg.compression

\* what the orchestrators do: no manifest ever names a codec
C30_ManifestsSayNone ==
    \A m \in DOMAIN manifests : manifests[m].compression = "none"

\* a file is gzip-compressed exactly when its name ends in .csv.gz, and only
\* a windowed CSV configuration with the gzip codec produces such a file
C30_GzipOnlyByFileName ==
    \A f \in DOMAIN data_files :
        /\ (CodecOf(data_files[f].enc) = "gzip") = (f.suf = ".csv.gz")
        /\ f.suf = ".csv.gz" =>
             (cfg.runMode = "windowed" /\ cfg.out_format = "csv"
              /\ cfg.compression = "gzip")

\* a chunk and its manifest are on disk under a windowed CSV configuration
\* with the gzip codec
C30_GzipChunkWritten ==
    /\ cfg.compression = "gzip"
    /\ cfg.out_format = "csv"
    /\ cfg.runMode = "windowed"
    /\ \E f \in DOMAIN data_files : data_files[f].enc = "csv+gzip"
    /\ manifests # <<>>

\* C31: date clamping. parse_date maps a text YYYY-MM-DD whose day exceeds the
\* length of its month to the last day of that month, with a warning
\* (2020-02-31 gives 2020-02-29, 2020-04-31 gives 2020-04-30), returns a date
\* within its month unchanged and without a warning, and raises ValueError
\* for a text that is not of the form YYYY-MM-DD.
C31_DateClamping ==
    (eval.fn = "parse_date" /\ eval.out # <<>>) =>
        LET t == eval.arg[1]
            r == eval.out[1]
            len == IF t.m \in {1, 3, 5, 7, 8, 10, 12} THEN 31
                   ELSE IF t.m \in {4, 6, 9, 11} THEN 30
                   ELSE IF t.y \in {2020, 2024} THEN 29 ELSE 28
        IN /\ t.shape = "other" => r.kind = "raise"
           /\ (t.shape = "ymd" /\ t.m \in 1..12 /\ t.d > len) =>
                 (r.kind = "date" /\ r.y = t.y /\ r.m = t.m /\ r.d = len /\ r.warned)
           /\ (t.shape = "ymd" /\ t.m \in 1..12 /\ t.d \in 1..len) =>
                 (r.kind = "date" /\ r.y = t.y /\ r.m = t.m /\ r.d = t.d /\ ~r.warned)
           /\ t.text = "2020-02-31" => (r.y = 2020 /\ r.m = 2 /\ r.d = 29)
           /\ t.text = "2020-04-31" => (r.y = 2020 /\ r.m = 4 /\ r.d = 30)

\* parse_date has clamped 2020-02-31 to 29 February 2020 with a warning
C31_Witness ==
    /\ eval.fn = "parse_date"
    /\ eval.arg[1].text = "2020-02-31"
    /\ eval.out # <<>>
    /\ eval.out[1].kind = "date"
    /\ eval.out[1].d = 29
    /\ eval.out[1].warned

\* parse_date has raised for a text of another shape
C31_WitnessRaise ==
    /\ eval.fn = "parse_date"
    /\ eval.arg[1].text = "2020/04/30"
    /\ eval.out # <<>>
    /\ eval.out[1].kind = "raise"

\* a date option of the run names a day past the end of its month
DayOutOfRange(t) ==
    t.shape = "ymd" /\ t.m \in 1..12 /\ t.d > last_day_of_month(t.y, t.m)

\* C32: a caller-supplied date with an out-of-range day-of-month (February
\* 31) is rejected at parse time: no window is generated from it and
\* run_windowed_mode is never entered.
C32_OutOfRangeDayRejected ==
    (cfg.mode_label # "full"
     /\ (DayOutOfRange(cfg.start_date) \/ DayOutOfRange(cfg.end_date))) =>
        pc \in {"main", "raised", "exit2"}

\* what main does instead: a run whose dates are texts dddd-dd-dd is rejected
\* only when the clamped start is after the clamped end
C32_ClampedThenDispatched ==
    (cfg.mode_label # "full" /\ pc # "main"
     /\ DayOutOfRange(cfg.start_date) /\ cfg.end_date.shape = "ymd") =>
        LET ps == parse_date(cfg.start_date)
            pe == parse_date(cfg.end_date)
        IN /\ ps.kind = "date" /\ ps.d = last_day_of_month(ps.y, ps.m)
           /\ (pc = "win_top") = ~DateBefore(pe, ps)
           /\ (pc = "exit2") = DateBefore(pe, ps)

\* main has handed the windows from 2020-02-31 (clamped) to 2020-03-05 to
\* run_windowed_mode
C32_WindowsFromFeb31 ==
    /\ cfg.mode_label = "daily"
    /\ cfg.start_date.text = "2020-02-31"
    /\ cfg.end_date.text = "2020-03-05"
    /\ pc = "win_top"

\* the orchestrator is inside its fetch loop
InLoop == pc \in {"loop_top", "fetch", "fetch_ret", "write_frame", "write_manifest"}

C33_WitnessResumed ==
    /\ run = 2
    /\ pc = "fetch"
    /\ chunk_no > 1
    /\ [w |-> StreamOf, no |-> chunk_no] \in h.started
    /\ req.params["$offset"] = Str((chunk_no - 1) * cfg.chunk_size)

\* over a tree that was empty before the first run no chunk is ever skipped:
\* the data files of a window are numbered 1..k, and a run starts at k + 1
C33_NoSkipFromEmptyTree == h.skipped = {}

\* C34: the preflight count probe is issued only for daily windows and only
\* when preflight is enabled. In weekly, monthly and full modes, or with
\* preflight off, no probe request is ever sent and every window the run
\* reaches goes straight to its fetch loop.
C34_ProbeDailyOptIn ==
    (cfg.mode_label # "daily" \/ ~cfg.preflight) =>
        /\ h.probes = {}
        /\ h.probeZero = {}
        /\ pc \notin {"probe", "probe_ret"}
        /\ req.kind # "probe"
        /\ \A w \in Streams :
              (w < wi \/ (w = wi /\ pc \notin {"win_top", "off_init", "done"})) =>
                 \E s \in h.started : s.w = w

\* a weekly run with preflight on has entered the fetch loop of its second
\* window without a probe
C34_Witness ==
    /\ cfg.mode_label = "weekly"
    /\ cfg.preflight
    /\ wi = 2
    /\ pc = "fetch"
    /\ req.kind = "fetch"
    /\ h.probes = {}

\* a daily run with preflight on has sent the probe of its second window
C34_WitnessDaily ==
    /\ cfg.mode_label = "daily"
    /\ cfg.preflight
    /\ wi = 2
    /\ pc = "probe"
    /\ h.probes = {1, 2}

\* C35: window identifiers are unique. Within the list generated for one span
\* at one granularity no two windows carry the same identifier, so two
\* different windows never map to the same base directory and chunk file
\* names.
C35_WindowIdsUnique ==
    CalendarDone =>
        \A i \in DOMAIN Generated, j \in DOMAIN Generated :
            i # j => Generated[i].wid # Generated[j].wid

\* the identifiers of the daily and the monthly generator are unique
C35_DailyMonthlyIdsUnique ==
    (CalendarDone /\ eval.fn # "week_windows") =>
        \A i \in DOMAIN Generated, j \in DOMAIN Generated :
            i # j => Generated[i].wid # Generated[j].wid

\* two weekly windows share an identifier only when their Mondays lie in the
\* same calendar year and in week 1 of two different ISO years
C35_WeeklyCollisionAtYearEnd ==
    (CalendarDone /\ eval.fn = "week_windows") =>
        \A i \in DOMAIN Generated, j \in DOMAIN Generated :
            (i # j /\ Generated[i].wid = Generated[j].wid) =>
               /\ fromordinal(Generated[i].s).y = fromordinal(Generated[j].s).y
               /\ isocalendar(Generated[i].s).week = 1
               /\ isocalendar(Generated[j].s).week = 1
               /\ isocalendar(Generated[i].s).year # isocalendar(Generated[j].s).year

\* the weekly windows of 2024 hold "2024-W01" twice: the weeks of Monday
\* 1 January 2024 and of Monday 30 December 2024
C35_TwoWeeksOneIdentifier ==
    /\ CalendarDone
    /\ eval.fn = "week_windows"
    /\ eval.arg = <<toordinal(2024, 1, 1), toordinal(2024, 12, 31)>>
    /\ Len(Generated) = 53
    /\ Generated[1].wid = "2024-W01"
    /\ Generated[53].wid = "2024-W01"
    /\ Generated[53].s = toordinal(2024, 12, 30)

\* the data files on disk have their manifests, but for the chunk being
\* written: no run has died between the two writes of a chunk
NoCrashBetweenWrites ==
    \A f \in DOMAIN data_files :
        \/ [f EXCEPT !.suf = ".manifest.json"] \in DOMAIN manifests
        \/ (pc = "write_manifest" /\ f = actual_path)

\* the chunk files of window w hold the rows of the source, each once: chunk
\* n holds the positions (n-1)*chunk_size .. n*chunk_size - 1 that exist
HoldsSource(w) ==
    \A n \in ChunkNos :
        LET off == (n - 1) * cfg.chunk_size
            page == Page(w, off, cfg.chunk_size)
            f == WrittenPath(w, n)
        IN IF page > 0
           THEN /\ f \in DOMAIN data_files
                /\ data_files[f].w = w
                /\ data_files[f].off = off
                /\ data_files[f].rows = page
           ELSE f \notin DOMAIN data_files /\ PathsOf(w, n).data_path \notin DOMAIN data_files

\* C36: exactly-once coverage. Whenever an orchestrator has ended a window (or
\* the full-mode run) as complete, after an empty page or a short page,
\* possibly after earlier runs interrupted by cancellation or fetch errors,
\* the window's chunk files hold exactly the source's rows of that window,
\* each once.
C36_ExactlyOnceCoverage ==
    NoCrashBetweenWrites => \A e \in h.ended : HoldsSource(e.w)

\* C36 where it holds: the window ended on a short page or on the empty body
\* of a 200 response
C36_ExactlyOnceAfterRealEnd ==
    NoCrashBetweenWrites =>
        \A e \in h.ended : e.via \in {"short", "200"} => HoldsSource(e.w)

\* a second run has completed, on a short page, a window of three rows whose
\* first chunk an interrupted first run had written
C36_ResumedAndComplete ==
    /\ run = 2
    /\ NoCrashBetweenWrites
    /\ [w |-> 1, via |-> "short"] \in h.ended
    /\ [w |-> 1, no |-> 2] \in h.started
    /\ src[1] = 3
    /\ HoldsSource(1)

\* a window of three rows has ended as complete with its first chunk only:
\* the fetch of chunk 2 was answered 429 on its last attempt
C36_EndedByExhaustion ==
    /\ [w |-> 1, via |-> "exhausted"] \in h.ended
    /\ src[1] = 3
    /\ NoCrashBetweenWrites
    /\ ~HoldsSource(1)

\* the chunk numbers of window w that have both a data file and a manifest
CompleteNos(w) == {n \in ChunkNos : Stored(w, n)}

\* the chunk numbers of window w that have a data file
DataNos(w) == {n \in ChunkNos : WrittenPath(w, n) \in DOMAIN data_files}

\* C37: contiguous completion. After any sequence of runs over the same
\* window, each ended by exhaustion, fetch error, cancellation or a crash
\* between writing a data file and writing its manifest, the chunk numbers
\* that have both a data file and a manifest form a gap-free prefix 1..k.
C37_ContiguousCompletion ==
    Terminated =>
        \A w \in Streams : \A n \in CompleteNos(w) : \A m \in 1..n : m \in CompleteNos(w)

\* what does hold: the chunk numbers that have a data file form a gap-free
\* prefix, and so do the complete ones as long as no run has died between the
\* two writes of a chunk
C37_DataFilesContiguous ==
    \A w \in Streams :
        /\ \A n \in DataNos(w) : \A m \in 1..n : m \in DataNos(w)
        /\ NoCrashBetweenWrites =>
              \A n \in CompleteNos(w) : \A m \in 1..n : m \in CompleteNos(w)

\* chunk 2 is complete and chunk 1 has its data file only: the first run died
\* after writing the data file of chunk 1, the second resumed at chunk 2
C37_GapAfterCrash ==
    /\ run = 2
    /\ Terminated
    /\ CompleteNos(1) = {2}
    /\ DataNos(1) = {1, 2}
    /\ [w |-> 1, no |-> 2] \in h.started

C38_WitnessWriteRaised ==
    /\ cfg.runMode = "windowed"
    /\ pc = "raised"
    /\ created_this_run
    /\ ~wrote_any
    /\ BaseDir(wi) \in dirs
    /\ IsEmptyDir(dirs, BaseDir(wi))

\* the step about to be taken is one of the non-writing outcomes: the fetch
\* has raised or returned an empty list, the chunk at the top of the loop is
\* already complete, or a poll sees the flag
NonWritingOutcome ==
    \/ pc = "fetch_ret" /\ (ret.kind = "raise" \/ ret.rows = 0)
    \/ pc = "loop_top" /\ (stop_requested \/ chunk_done(PathsOf(StreamOf, chunk_no)))
    \/ pc = "win_top" /\ cfg.runMode = "windowed" /\ wi <= NWindows /\ stop_requested

\* C39: frame on non-writing outcomes. A fetch that raises or returns an empty
\* list, a skipped already-complete chunk and a detected cancellation each
\* leave the output tree as it was: no file or directory is created, modified
\* or removed; and a directory that existed before the run is never removed
\* by the run.
C39_NonWritingFrame ==
    /\ [][NonWritingOutcome =>
            (dirs' = dirs /\ data_files' = data_files /\ manifests' = manifests)]_vars
    /\ [](h.dirs0 \subseteq dirs)

\* a run over a tree that held chunk 2 alone has skipped it, its next fetch
\* has returned an empty list, and the tree is the one the run found
C39_Witness ==
    /\ run = 1
    /\ [w |-> StreamOf, no |-> 2] \in h.skipped
    /\ h.ended # {}
    /\ h.writes = {}
    /\ dirs = h.dirs0
    /\ DOMAIN data_files = h.data0
    /\ DOMAIN manifests = h.manifests0

\* a run has ended on a fetch error without writing: the tree is the one it
\* found
C39_WitnessFetchError ==
    /\ h.fetchErrors # {}
    /\ Terminated
    /\ h.writes = {}
    /\ dirs = h.dirs0
    /\ DOMAIN data_files = h.data0

\* C40: termination. With a source whose windows hold finitely many rows, a
\* fetcher whose every call returns or raises and finitely many files on
\* disk, every run of run_windowed_mode and run_offset_mode comes to its end
\* (it returns, or an exception leaves it): neither the skip loop nor the
\* fetch loop iterates forever, and safe_request makes at most http.retries
\* attempts.
C40_Termination ==
    /\ <>Terminated
    /\ [](InCall => (req.attempt <= cfg.retries /\ req.gets < cfg.retries))

\* a run over a tree that held chunk 2 alone has skipped it, fetched the next
\* chunk after a retry, and returned
C40_Witness ==
    /\ pc = "done"
    /\ h.skipped # {}
    /\ h.fetches # {}
    /\ h.writes # {}
    /\ cfg.retries = 2
    /\ ret.gets = 2

====
